---- MODULE Spec2Model ----
(***************************************************************************)
(* Model of the opkssh `permissions` command: the check workflow           *)
(* (runPermissionsCheck), the fix workflow (runPermissionsFix with its     *)
(* plan / elevation gate / confirmation gate / execution phases), the      *)
(* permission-bit checker (PermsChecker.CheckPerm), the ACL verifier       *)
(* (WindowsACLVerifier.VerifyACL) and the file permission operations       *)
(* (WindowsACLFilePermsOps).                                               *)
(*                                                                         *)
(* Strings that the code inspects character by character (the answer read  *)
(* from standard input, directory entry names) are sequences of one-       *)
(* character strings.  File modes are the numeric permission bits.         *)
(***************************************************************************)
EXTENDS Integers, Sequences, FiniteSets, TLC

VARIABLES
    cmd,          \* which entry point this run executes: "fix", "check", "checkperm"
    run,          \* how many times the command has been started
    pc,           \* position of the run inside the entry point
    fs,           \* the filesystem: governed paths and the plugins directory listing
    fs0,          \* the filesystem as it was when the run started
    dryRun,       \* --dry-run flag
    yes,          \* --yes flag
    verbose,      \* --verbose flag
    planned,      \* runPermissionsFix: `planned`
    probeCount,   \* number of times IsElevated has been consulted
    elevated,     \* answer of IsElevated: "unasked", "elevated", "not", "error"
    promptCount,  \* number of times ConfirmPrompt has been invoked
    stdin,        \* what standard input holds while ConfirmPrompt blocks on it
    confirm,      \* outcome of ConfirmPrompt: "unasked", "ok", "no", "error"
    output,       \* every line printed so far
    errorsFound,  \* runPermissionsFix: `errorsFound`
    calls,        \* every mutator call attempted so far, with its outcome
    entries,      \* runPermissionsFix execution phase: `entries` still to visit
    problems,     \* runPermissionsCheck: `problems`
    result,       \* the value returned by the entry point
    cpIn,         \* a single call of CheckPerm or Chown: its arguments and environment
    cpOut         \* a single call of CheckPerm or Chown: what it returned and did

vars == <<cmd, run, pc, fs, fs0, dryRun, yes, verbose, planned, probeCount, elevated,
          promptCount, stdin, confirm, output, errorsFound, calls, entries,
          problems, result, cpIn, cpOut>>

----------------------------------------------------------------------------
(* Bounds of the model *)

\* Longest standard-input content enumerated exhaustively
MaxAnswerLen == 2
\* Largest number of entries in the plugins directory
MaxPlugins == 2
\* Longest allow-list handed to CheckPerm
MaxPerms == 2
\* Longest owner/group probe output, in symbols
MaxProbeLen == 3
\* Most mutator calls the environment refuses in one run (a call on a path
\* that is not there fails regardless)
MaxFailures == 2
\* Most times the fix command is started in succession
MaxRuns == 2

----------------------------------------------------------------------------
(* Program constants *)

\* files.ModeSystemPerms, 0640
ModeSystemPerms == 416
\* the mode handed to MkdirAllWithPerm, 0750
ModeDirPerms == 488

SeqsUpTo(S, n) == UNION {[1..k -> S] : k \in 0..n}

----------------------------------------------------------------------------
(* Strings *)

\* unicode.IsSpace on the characters standard input can hold
IsSpace(c) == c \in {" ", "\n", "\t", "\r"}

\* unicode.ToLower on one character
LowerOf(c) ==
    CASE c = "Y" -> "y"
      [] c = "E" -> "e"
      [] c = "S" -> "s"
      [] c = "N" -> "n"
      [] OTHER -> c

\* strings.ToLower
ToLower(s) == [i \in 1..Len(s) |-> LowerOf(s[i])]

RECURSIVE TrimLeft(_)
TrimLeft(s) == IF s # <<>> /\ IsSpace(Head(s)) THEN TrimLeft(Tail(s)) ELSE s

RECURSIVE TrimRight(_)
TrimRight(s) ==
    IF s # <<>> /\ IsSpace(s[Len(s)]) THEN TrimRight(SubSeq(s, 1, Len(s) - 1)) ELSE s

\* strings.TrimSpace
TrimSpace(s) == TrimRight(TrimLeft(s))

\* strings.HasSuffix
HasSuffix(s, suffix) ==
    /\ Len(s) >= Len(suffix)
    /\ SubSeq(s, Len(s) - Len(suffix) + 1, Len(s)) = suffix

\* bufio.Reader.ReadString: everything up to and including the first delim;
\* when the input ends before a delim, what was read and an error (io.EOF)
ReadString(in, delim) ==
    LET hits == {i \in 1..Len(in) : in[i] = delim}
    IN  IF hits = {}
        THEN [line |-> in, err |-> TRUE]
        ELSE LET first == CHOOSE i \in hits : \A j \in hits : i <= j
             IN  [line |-> SubSeq(in, 1, first), err |-> FALSE]

\* ConfirmPrompt: the (bool, error) pair it returns for a standard input
ConfirmAnswerNoErrCheck(in) ==
    LET r == ReadString(in, "\n")
        s == TrimSpace(ToLower(r.line))
    IN  [ok |-> s = <<"y">> \/ s = <<"y", "e", "s">>, err |-> FALSE]

ConfirmAnswer(in) ==
    LET r == ReadString(in, "\n")
    IN  IF r.err
        THEN [ok |-> FALSE, err |-> TRUE]
        ELSE LET s == TrimSpace(ToLower(r.line))
             IN  [ok |-> s = <<"y">> \/ s = <<"y", "e", "s">>, err |-> FALSE]

\* fs.FileMode.String for a regular file's permission bits: "-rwxrwxrwx"
ModeString(m) ==
    LET letters == <<"r", "w", "x", "r", "w", "x", "r", "w", "x">>
        bit(i) == (m \div (2 ^ (9 - i))) % 2
    IN  <<"-">> \o [i \in 1..9 |-> IF bit(i) = 1 THEN letters[i] ELSE "-"]

----------------------------------------------------------------------------
(* The filesystem *)

NoFile == [kind |-> "none", mode |-> 0, owner |-> "", grants |-> {}, content |-> ""]

File(mode, owner, grants, content) ==
    [kind |-> "file", mode |-> mode, owner |-> owner, grants |-> grants,
     content |-> content]

Dir(mode, owner, grants) ==
    [kind |-> "dir", mode |-> mode, owner |-> owner, grants |-> grants, content |-> ""]

\* A path: one of the three governed locations, or a name inside the plugins dir
Path(dir) == [dir |-> dir, name |-> <<>>]

\* filepath.Join(pluginsDir, name)
Join(dir, name) == [dir |-> dir, name |-> name]

\* policy.SystemDefaultPolicyPath
systemPolicy == Path("policy")
\* filepath.Join(policy.GetSystemConfigBasePath(), "providers")
providersDir == Path("providers")
\* filepath.Join(policy.GetSystemConfigBasePath(), "policy.d")
pluginsDir == Path("plugins")

\* The object a path names (NoFile when nothing is there)
Lookup(f, path) ==
    IF path.name = <<>>
    THEN f[path.dir]
    ELSE IF path.dir = "plugins" /\ f.plugins.kind = "dir"
              /\ \E i \in 1..Len(f.listing) : f.listing[i].name = path.name
         THEN LET i == CHOOSE j \in 1..Len(f.listing) : f.listing[j].name = path.name
              IN  f.listing[i].rec
         ELSE NoFile

\* The filesystem with the object at path replaced
Store(f, path, rec) ==
    IF path.name = <<>>
    THEN [f EXCEPT ![path.dir] = rec]
    ELSE [f EXCEPT !.listing =
            [i \in 1..Len(f.listing) |->
                IF f.listing[i].name = path.name
                THEN [name |-> path.name, rec |-> rec]
                ELSE f.listing[i]]]

\* afero.Fs.Stat succeeds
StatOk(f, path) == Lookup(f, path).kind # "none"

\* afero.Fs.Open(dir) followed by Readdir(-1): the entries, in directory order;
\* Open fails on a missing path, Readdir yields nothing on a non-directory
OpenOk(f, path) == Lookup(f, path).kind # "none"

Readdir(f, path) ==
    IF path = pluginsDir /\ f.plugins.kind = "dir" THEN f.listing ELSE <<>>

----------------------------------------------------------------------------
(* WindowsACLFilePermsOps: each operation yields the filesystem it leaves    *)
(* and whether it returned an error.  envOk is the answer of the underlying  *)
(* filesystem (an operation can be refused for reasons outside the model).   *)

\* the principal that owns what an elevated run creates
Caller == "Administrators"

\* Fs.MkdirAll(path, perm)
MkdirAllWithPerm(f, path, perm, envOk) ==
    LET cur == Lookup(f, path)
    IN  IF cur.kind = "dir" THEN [fs |-> f, err |-> FALSE]
        ELSE IF cur.kind = "file" \/ ~envOk THEN [fs |-> f, err |-> TRUE]
        ELSE [fs |-> [Store(f, path, Dir(perm, Caller, {})) EXCEPT
                        !.listing = IF path = pluginsDir THEN <<>> ELSE @],
              err |-> FALSE]

\* Fs.Create(path): creates the file, or truncates the one that is there
CreateFileWithPerm(f, path, newMode, envOk) ==
    LET cur == Lookup(f, path)
    IN  IF cur.kind = "dir" \/ ~envOk THEN [fs |-> f, err |-> TRUE]
        ELSE IF cur.kind = "file"
        THEN [fs |-> Store(f, path, [cur EXCEPT !.content = ""]), err |-> FALSE]
        ELSE [fs |-> Store(f, path, File(newMode, Caller, {}, "")), err |-> FALSE]

\* (a chmod that reports success and leaves the mode as it is)
ChmodKeepsMode(f, path, perm, envOk) ==
    IF Lookup(f, path).kind = "none" \/ ~envOk THEN [fs |-> f, err |-> TRUE]
    ELSE [fs |-> f, err |-> FALSE]

\* Fs.Chmod(path, perm)
Chmod(f, path, perm, envOk) ==
    LET cur == Lookup(f, path)
    IN  IF cur.kind = "none" \/ ~envOk THEN [fs |-> f, err |-> TRUE]
        ELSE [fs |-> Store(f, path, [cur EXCEPT !.mode = perm]), err |-> FALSE]

\* what the external ACL tool can print: a sequence of pieces of text
ToolOutputs ==
    { <<"processed file: ", "Successfully processed", " 1 files">>,
      <<"processed file: ", "successfully processed", " 1 files">>,
      <<"Access is denied.">> }

\* One run of the external ACL tool: its exit status and its combined output
ToolRuns == [exit0 : BOOLEAN, out : ToolOutputs]

\* the tool cannot succeed on a path that is not there
ToolRunsOn(f, path) == {t \in ToolRuns : t.exit0 => StatOk(f, path)}

\* strings.Contains(string(out), "Successfully processed")
HasMarker(t) == \E i \in DOMAIN t.out : t.out[i] = "Successfully processed"

\* icacls path /setowner ownerName
SetOwner(f, path, ownerName, t) ==
    IF t.exit0 THEN Store(f, path, [Lookup(f, path) EXCEPT !.owner = ownerName]) ELSE f

\* icacls path /grant g1 [/grant g2]
Grant(f, path, gs, t) ==
    IF t.exit0
    THEN Store(f, path, [Lookup(f, path) EXCEPT !.grants = @ \cup gs])
    ELSE f

\* one invocation of the tool as Chown makes it: exec.Command("icacls", path, ...)
Invocation(verb, args) == [verb |-> verb, args |-> args]

\* the result of Chown: the filesystem it leaves, whether it returned an error,
\* and the invocations of the tool it made, in order
ChownResult(f, err, tools) == [fs |-> f, err |-> err, tools |-> tools]

\* (a Chown that forgives every run of the tool whose output holds the marker)
ChownMarkerEverywhere(f, path, owner, group, t1, t2, t3) ==
    IF owner = "" /\ group = "" THEN ChownResult(f, FALSE, <<>>)
    ELSE
    LET ownerName == IF owner = "root" THEN "Administrators" ELSE owner
        f1 == IF ownerName # "" THEN SetOwner(f, path, ownerName, t1) ELSE f
        f2 == IF group # "" THEN Grant(f1, path, {<<group, "R">>}, t2) ELSE f1
        f3 == Grant(f2, path, {<<"Administrators", "F">>, <<"SYSTEM", "F">>}, t3)
        i1 == IF ownerName # "" THEN <<Invocation("/setowner", <<ownerName>>)>> ELSE <<>>
        i2 == i1 \o (IF group # "" THEN <<Invocation("/grant", <<<<group, "R">>>>)>>
                                   ELSE <<>>)
        i3 == Append(i2, Invocation("/grant", << <<"Administrators", "F">>,
                                                 <<"SYSTEM", "F">> >>))
    IN  IF ownerName # "" /\ ~t1.exit0 /\ ~HasMarker(t1) THEN ChownResult(f1, TRUE, i1)
        ELSE IF group # "" /\ ~t2.exit0 /\ ~HasMarker(t2) THEN ChownResult(f2, TRUE, i2)
        ELSE IF ~t3.exit0 /\ ~HasMarker(t3) THEN ChownResult(f3, TRUE, i3)
        ELSE ChownResult(f3, FALSE, i3)

\* (a Chown that ensures full control only when no group was given)
ChownEnsuresWithoutGroupOnly(f, path, owner, group, t1, t2, t3) ==
    IF owner = "" /\ group = "" THEN ChownResult(f, FALSE, <<>>)
    ELSE
    LET ownerName == IF owner = "root" THEN "Administrators" ELSE owner
        f1 == IF ownerName # "" THEN SetOwner(f, path, ownerName, t1) ELSE f
        f2 == IF group # "" THEN Grant(f1, path, {<<group, "R">>}, t2) ELSE f1
        f3 == Grant(f2, path, {<<"Administrators", "F">>, <<"SYSTEM", "F">>}, t3)
        i1 == IF ownerName # "" THEN <<Invocation("/setowner", <<ownerName>>)>> ELSE <<>>
        i2 == i1 \o (IF group # "" THEN <<Invocation("/grant", <<<<group, "R">>>>)>>
                                   ELSE <<>>)
        i3 == Append(i2, Invocation("/grant", << <<"Administrators", "F">>,
                                                 <<"SYSTEM", "F">> >>))
    IN  IF ownerName # "" /\ ~t1.exit0 THEN ChownResult(f1, TRUE, i1)
        ELSE IF group # "" /\ ~t2.exit0 THEN ChownResult(f2, TRUE, i2)
        ELSE IF group # "" THEN ChownResult(f2, FALSE, i2)
        ELSE IF ~t3.exit0 /\ ~HasMarker(t3) THEN ChownResult(f3, TRUE, i3)
        ELSE ChownResult(f3, FALSE, i3)

\* WindowsACLFilePermsOps.Chown; t1, t2, t3 are the three runs of the tool
Chown(f, path, owner, group, t1, t2, t3) ==
    IF owner = "" /\ group = "" THEN ChownResult(f, FALSE, <<>>)
    ELSE
    LET ownerName == IF owner = "root" THEN "Administrators" ELSE owner
        f1 == IF ownerName # "" THEN SetOwner(f, path, ownerName, t1) ELSE f
        f2 == IF group # "" THEN Grant(f1, path, {<<group, "R">>}, t2) ELSE f1
        f3 == Grant(f2, path, {<<"Administrators", "F">>, <<"SYSTEM", "F">>}, t3)
        i1 == IF ownerName # "" THEN <<Invocation("/setowner", <<ownerName>>)>> ELSE <<>>
        i2 == i1 \o (IF group # "" THEN <<Invocation("/grant", <<<<group, "R">>>>)>>
                                   ELSE <<>>)
        i3 == Append(i2, Invocation("/grant", << <<"Administrators", "F">>,
                                                 <<"SYSTEM", "F">> >>))
    IN  IF ownerName # "" /\ ~t1.exit0 THEN ChownResult(f1, TRUE, i1)
        ELSE IF group # "" /\ ~t2.exit0 THEN ChownResult(f2, TRUE, i2)
        ELSE IF ~t3.exit0 /\ ~HasMarker(t3) THEN ChownResult(f3, TRUE, i3)
        ELSE ChownResult(f3, FALSE, i3)

----------------------------------------------------------------------------
(* runPermissionsFix, planning phase *)

Item(act, path, arg) == [act |-> act, path |-> path, arg |-> arg]

\* the plugin-file suffix, ".yml"
YmlSuffix == <<".", "y", "m", "l">>

\* (a filter that takes every file, whatever its name)
IsPluginFileAnyName(e) == e.rec.kind # "dir"

\* the entries the plugin loops act on: !e.IsDir() && HasSuffix(e.Name(), ".yml")
IsPluginFile(e) == e.rec.kind # "dir" /\ HasSuffix(e.name, YmlSuffix)

RECURSIVE PluginItems(_)
PluginItems(es) ==
    IF es = <<>> THEN <<>>
    ELSE (IF IsPluginFile(Head(es))
          THEN << Item("chmod", Join("plugins", Head(es).name), <<"0640">>),
                  Item("chown", Join("plugins", Head(es).name), <<"root">>) >>
          ELSE <<>>) \o PluginItems(Tail(es))

\* (a plan that creates the policy file after setting its mode and owner, and
\* makes the directories whether they are there or not)
PlanCreatesLate(f) ==
    << Item("chmod", systemPolicy, ModeString(ModeSystemPerms)),
       Item("chown", systemPolicy, <<"root:opksshuser">>) >>
    \o (IF ~StatOk(f, systemPolicy)
          THEN << Item("create file", systemPolicy, <<>>) >> ELSE <<>>)
    \o << Item("mkdir", providersDir, <<>>),
          Item("chown", providersDir, <<"root">>),
          Item("mkdir", pluginsDir, <<>>) >>
    \o (IF OpenOk(f, pluginsDir) THEN PluginItems(Readdir(f, pluginsDir)) ELSE <<>>)

\* the value of `planned` after the planning phase
Plan(f) ==
    (IF ~StatOk(f, systemPolicy)
       THEN << Item("create file", systemPolicy, <<>>) >> ELSE <<>>)
    \o << Item("chmod", systemPolicy, ModeString(ModeSystemPerms)),
          Item("chown", systemPolicy, <<"root:opksshuser">>) >>
    \o (IF ~StatOk(f, providersDir)
          THEN << Item("mkdir", providersDir, <<>>) >> ELSE <<>>)
    \o << Item("chown", providersDir, <<"root">>) >>
    \o (IF ~StatOk(f, pluginsDir)
          THEN << Item("mkdir", pluginsDir, <<>>) >> ELSE <<>>)
    \o (IF OpenOk(f, pluginsDir) THEN PluginItems(Readdir(f, pluginsDir)) ELSE <<>>)

----------------------------------------------------------------------------
(* PermsChecker.CheckPerm.  Owner and group names and the output of the     *)
(* owner/group probe are sequences of symbols: a symbol is a name or one    *)
(* white-space character.                                                   *)

\* fs.FileMode.Perm: the permission bits, mode & 0777
Perm(m) == m % 512

\* fileInfo.Mode() of an object of the filesystem, type bits left out (the
\* checker reads it through Perm only)
ModeOf(rec) == rec.mode

OctDigits == <<"0", "1", "2", "3", "4", "5", "6", "7">>

\* fmt.Sprintf("%d", n)
RECURSIVE Decimal(_)
Decimal(n) ==
    LET digits == <<"0", "1", "2", "3", "4", "5", "6", "7", "8", "9">>
    IN  IF n < 10 THEN <<digits[n + 1]>>
        ELSE Decimal(n \div 10) \o <<digits[(n % 10) + 1]>>

\* fmt.Sprintf("%o", n)
RECURSIVE Octal(_)
Octal(n) ==
    IF n < 8 THEN <<OctDigits[n + 1]>>
    ELSE Octal(n \div 8) \o <<OctDigits[(n % 8) + 1]>>

\* strings.Split(s, " "): cut at every single space; one (empty) field for ""
RECURSIVE Split(_)
Split(s) ==
    LET hits == {i \in 1..Len(s) : s[i] = " "}
    IN  IF hits = {} THEN <<s>>
        ELSE LET first == CHOOSE i \in hits : \A j \in hits : i <= j
             IN  <<SubSeq(s, 1, first - 1)>> \o Split(SubSeq(s, first + 1, Len(s)))

\* the errors CheckPerm returns
CheckErr(kind, expected, got) == [kind |-> kind, expected |-> expected, got |-> got]
NoErr == CheckErr("nil", <<>>, <<>>)

\* (a match that accepts any mode whose bits are among an allowed value's bits)
PermMatchSubset(mode, requirePerm) ==
    \E i \in DOMAIN requirePerm :
        \A b \in 0..8 :
            (Perm(mode) \div (2 ^ b)) % 2 <= (requirePerm[i] \div (2 ^ b)) % 2

\* permMatch: mode.Perm() == p for some p of requirePerm
PermMatch(mode, requirePerm) ==
    \E i \in DOMAIN requirePerm : Perm(mode) = requirePerm[i]

\* (a message that names only the first allowed value)
RequiredPermStringFirstOnly(requirePerm) ==
    IF requirePerm = <<>> THEN <<>> ELSE <<Octal(Perm(requirePerm[1]))>>

\* requiredPermString: every allowed value, "%o" of p.Perm()
RequiredPermString(requirePerm) ==
    [i \in DOMAIN requirePerm |-> Octal(Perm(requirePerm[i]))]

\* (an owner/group check that compares the group even when none is asked for)
CheckOwnerGroupAlwaysGroup(runner, requiredOwner, requiredGroup) ==
    IF requiredOwner = <<>> /\ requiredGroup = <<>> THEN NoErr
    ELSE IF runner.err THEN CheckErr("failed to run stat", <<>>, <<>>)
    ELSE LET statOutputSplit == Split(TrimSpace(runner.out))
         IN  IF Len(statOutputSplit) # 2
             THEN CheckErr("expected stat command to return 2 values",
                           <<>>, Decimal(Len(statOutputSplit)))
             ELSE IF requiredOwner # <<>> /\ requiredOwner # statOutputSplit[1]
             THEN CheckErr("expected owner", requiredOwner, statOutputSplit[1])
             ELSE IF requiredGroup # statOutputSplit[2]
             THEN CheckErr("expected group", requiredGroup, statOutputSplit[2])
             ELSE NoErr

\* the owner/group part of CheckPerm: the error it returns, NoErr to go on
CheckOwnerGroup(runner, requiredOwner, requiredGroup) ==
    IF requiredOwner = <<>> /\ requiredGroup = <<>> THEN NoErr
    ELSE IF runner.err THEN CheckErr("failed to run stat", <<>>, <<>>)
    ELSE LET statOutputSplit == Split(TrimSpace(runner.out))
         IN  IF Len(statOutputSplit) # 2
             THEN CheckErr("expected stat command to return 2 values",
                           <<>>, Decimal(Len(statOutputSplit)))
             ELSE IF requiredOwner # <<>> /\ requiredOwner # statOutputSplit[1]
             THEN CheckErr("expected owner", requiredOwner, statOutputSplit[1])
             ELSE IF requiredGroup # <<>> /\ requiredGroup # statOutputSplit[2]
             THEN CheckErr("expected group", requiredGroup, statOutputSplit[2])
             ELSE NoErr

\* PermsChecker.CheckPerm on the object a path names; runner is u.CmdRunner
CheckPerm(rec, runner, requirePerm, requiredOwner, requiredGroup) ==
    IF rec.kind = "none"
    THEN CheckErr("failed to describe the file at path", <<>>, <<>>)
    ELSE IF ~runner.present THEN NoErr
    ELSE LET og == CheckOwnerGroup(runner, requiredOwner, requiredGroup)
         IN  IF og # NoErr THEN og
             ELSE IF ~PermMatch(ModeOf(rec), requirePerm)
             THEN CheckErr("expected one of the following permissions",
                           RequiredPermString(requirePerm), Octal(Perm(ModeOf(rec))))
             ELSE NoErr

\* a CmdRunner: absent (nil), failing, or answering with an output
NilRunner == [present |-> FALSE, err |-> FALSE, out |-> <<>>]
FailingRunner == [present |-> TRUE, err |-> TRUE, out |-> <<>>]
Answering(out) == [present |-> TRUE, err |-> FALSE, out |-> out]

----------------------------------------------------------------------------
(* WindowsACLVerifier.VerifyACL *)

\* (a verifier that has nothing to say about a path that exists)
VerifyACLPassesWhatExists(f, path) ==
    IF ~StatOk(f, path)
    THEN [path |-> path, exists |-> FALSE, owner |-> "", mode |-> 0, aces |-> <<>>,
          problems |-> << "open: stat error" >>]
    ELSE [path |-> path, exists |-> TRUE, owner |-> "", mode |-> 0, aces |-> <<>>,
          problems |-> <<>>]

\* the report of a path: existence, and one problem in either case
VerifyACL(f, path) ==
    IF ~StatOk(f, path)
    THEN [path |-> path, exists |-> FALSE, owner |-> "", mode |-> 0, aces |-> <<>>,
          problems |-> << "open: stat error" >>]
    ELSE [path |-> path, exists |-> TRUE, owner |-> "", mode |-> 0, aces |-> <<>>,
          problems |-> << "Windows ACL verification is not yet implemented" >>]

----------------------------------------------------------------------------
(* Inputs: the filesystems a run can start from, what the user can type *)

FullControl == {<<"Administrators", "F">>, <<"SYSTEM", "F">>}

\* the system policy file: missing, as the installer leaves it, or loose
PolicyStates ==
    { NoFile,
      File(ModeSystemPerms, "Administrators",
           FullControl \cup {<<"opksshuser", "R">>}, "policy"),
      File(438, "alice", {}, "policy") }

ProvidersStates == { NoFile, Dir(ModeDirPerms, "alice", {}) }

PluginsStates == { NoFile, Dir(ModeDirPerms, "Administrators", FullControl) }

\* what the plugins directory can hold, in name order
EntryA == [name |-> <<"a", ".", "y", "m", "l">>, rec |-> File(390, "alice", {}, "plugin")]
EntryB == [name |-> <<"b", ".", "t", "x", "t">>, rec |-> File(390, "alice", {}, "notes")]
EntryC == [name |-> <<"c", ".", "y", "m", "l">>, rec |-> Dir(ModeDirPerms, "alice", {})]
EntryD ==
    [name |-> <<"d", ".", "y", "m", "l">>,
     rec |-> File(ModeSystemPerms, "Administrators", FullControl, "plugin")]

PluginEntries == <<EntryA, EntryB, EntryC, EntryD>>

InListing(S, e) == e \in S

\* directory listings: at most MaxPlugins entries; Readdir hands them out in
\* directory order, which is name order
Listings ==
    {SelectSeq(PluginEntries, LAMBDA e : InListing(S, e)) :
        S \in {T \in SUBSET {EntryA, EntryB, EntryC, EntryD} :
                  Cardinality(T) <= MaxPlugins}}

FsStates ==
    {[policy |-> p, providers |-> r, plugins |-> g, listing |-> l] :
        p \in PolicyStates, r \in ProvidersStates,
        g \in PluginsStates, l \in Listings}

\* a missing directory has no listing
FixFsStates == {f \in FsStates : f.plugins.kind = "none" => f.listing = <<>>}

\* the mode a file created by Fs.Create shows: 0 in memory, 0666 on disk
CreateModes == {0, 438}

StdinChars == {"y", "Y", "e", "s", " ", "\n"}

\* longer contents of standard input worth trying
LongAnswers ==
    { <<"y", "e", "s", "\n">>, <<"Y", "E", "S", "\n">>, <<"y", "e", "s">>,
      <<" ", "y", "e", "s", " ", "\r", "\n">>, <<"\t", "Y", "\n">>,
      <<"y", "e", "s", "s", "\n">>, <<"n", "o", "\n">>, <<"N", "\n">>,
      <<"y", "\n", "n", "\n">>, <<"n", "\n", "y", "\n">> }

StdinInputs == SeqsUpTo(StdinChars, MaxAnswerLen) \cup LongAnswers

----------------------------------------------------------------------------
(* Results and output *)

Ret(kind, n) == [kind |-> kind, n |-> n]
Running == Ret("running", 0)
Nil == Ret("nil", 0)

NoItem == Item("", Path(""), <<>>)
Line(tag, item) == [tag |-> tag, item |-> item]
Lines(tag, items) == [i \in 1..Len(items) |-> Line(tag, items[i])]

NoCheckPerm == [used |-> FALSE]

----------------------------------------------------------------------------
(* runPermissionsFix *)

InitFix ==
    /\ cmd = "fix"
    /\ run = 1
    /\ pc = "PLANNING"
    /\ fs \in FixFsStates
    /\ fs0 = fs
    /\ dryRun \in BOOLEAN
    /\ yes \in BOOLEAN
    /\ verbose \in BOOLEAN
    /\ planned = <<>>
    /\ probeCount = 0
    /\ elevated = "unasked"
    /\ promptCount = 0
    /\ stdin = <<>>
    /\ confirm = "unasked"
    /\ output = <<>>
    /\ errorsFound = <<>>
    /\ calls = <<>>
    /\ entries = <<>>
    /\ problems = <<>>
    /\ result = Running
    /\ cpIn = NoCheckPerm
    /\ cpOut = NoErr

\* (a run that forgets the dry-run exit)
AfterPlanningNoDryRunExit(dry) == "ELEVATION"

\* where the run goes after planning: the dry-run exit, or the elevation gate
AfterPlanning(dry) == IF dry THEN "REPORT" ELSE "ELEVATION"

\* Planning phase: determine actions without performing them
Planning ==
    /\ cmd = "fix" /\ pc = "PLANNING"
    /\ planned' = Plan(fs)
    /\ pc' = AfterPlanning(dryRun)
    /\ UNCHANGED <<cmd, run, fs, fs0, dryRun, yes, verbose, probeCount, elevated,
                   promptCount, stdin, confirm, output, errorsFound, calls,
                   entries, problems, result, cpIn, cpOut>>

\* If dry-run, just print planned actions
DryRunReport ==
    /\ cmd = "fix" /\ pc = "REPORT"
    /\ output' = output \o Lines("Action:", planned)
                        \o << Line("dry-run complete", NoItem) >>
    /\ result' = Nil
    /\ pc' = "DONE"
    /\ UNCHANGED <<cmd, run, fs, fs0, dryRun, yes, verbose, planned, probeCount,
                   elevated, promptCount, stdin, confirm, errorsFound, calls,
                   entries, problems, cpIn, cpOut>>

\* (a run that goes on whatever the probe answered)
AfterElevationNoGate(ans) ==
    [pc |-> IF yes THEN "EXEC_POLICY_CREATE" ELSE "CONFIRM", result |-> Running]

\* (a run that asks for confirmation even under --yes)
AfterElevationAlwaysAsks(ans) ==
    CASE ans = "error" -> [pc |-> "DONE", result |-> Ret("failed to determine elevation", 0)]
      [] ans = "not" -> [pc |-> "DONE", result |-> Ret("fix requires elevated privileges", 0)]
      [] OTHER -> [pc |-> "CONFIRM", result |-> Running]

\* (a run that reports a probe failure as a lack of privilege)
AfterElevationOneError(ans) ==
    CASE ans \in {"error", "not"} ->
             [pc |-> "DONE", result |-> Ret("fix requires elevated privileges", 0)]
      [] OTHER -> [pc |-> IF yes THEN "EXEC_POLICY_CREATE" ELSE "CONFIRM",
                   result |-> Running]

\* where a live run goes once IsElevated has answered
AfterElevation(ans) ==
    CASE ans = "error" -> [pc |-> "DONE", result |-> Ret("failed to determine elevation", 0)]
      [] ans = "not" -> [pc |-> "DONE", result |-> Ret("fix requires elevated privileges", 0)]
      [] OTHER -> [pc |-> IF yes THEN "EXEC_POLICY_CREATE" ELSE "CONFIRM",
                   result |-> Running]

\* Require elevated privileges to perform fixes
ElevationCheck ==
    /\ cmd = "fix" /\ pc = "ELEVATION"
    /\ \E ans \in {"elevated", "not", "error"} :
        /\ elevated' = ans
        /\ probeCount' = probeCount + 1
        /\ pc' = AfterElevation(ans).pc
        /\ result' = AfterElevation(ans).result
    /\ UNCHANGED <<cmd, run, fs, fs0, dryRun, yes, verbose, planned, promptCount,
                   stdin, confirm, output, errorsFound, calls, entries, problems,
                   cpIn, cpOut>>

\* Confirm with user unless --yes: show planned actions and ask; the run
\* then blocks on standard input, which holds whatever the user supplies
ShowPrompt ==
    /\ cmd = "fix" /\ pc = "CONFIRM"
    /\ output' = output \o << Line("Planned actions:", NoItem) >>
                        \o Lines("  -", planned)
                        \o << Line("Apply these changes? [y/N]: ", NoItem) >>
    /\ promptCount' = promptCount + 1
    /\ \E in \in StdinInputs : stdin' = in
    /\ pc' = "READ"
    /\ UNCHANGED <<cmd, run, fs, fs0, dryRun, yes, verbose, planned, probeCount,
                   elevated, confirm, errorsFound, calls, entries, problems,
                   result, cpIn, cpOut>>

\* (a run that asks again when the answer is not affirmative)
AfterConfirmAsksAgain(a) ==
    IF a.err THEN [pc |-> "DONE", confirm |-> "error", result |-> Ret("read error", 0)]
    ELSE IF ~a.ok THEN [pc |-> "CONFIRM", confirm |-> "unasked", result |-> Running]
    ELSE [pc |-> "EXEC_POLICY_CREATE", confirm |-> "ok", result |-> Running]

\* where the run goes once ConfirmPrompt has returned (ok, err)
AfterConfirm(a) ==
    IF a.err THEN [pc |-> "DONE", confirm |-> "error", result |-> Ret("read error", 0)]
    ELSE IF ~a.ok THEN [pc |-> "DONE", confirm |-> "no", result |-> Ret("aborted by user", 0)]
    ELSE [pc |-> "EXEC_POLICY_CREATE", confirm |-> "ok", result |-> Running]

\* ConfirmPrompt reads the answer and the run acts on it
ReadAnswer ==
    /\ cmd = "fix" /\ pc = "READ"
    /\ LET next == AfterConfirm(ConfirmAnswer(stdin))
       IN  /\ pc' = next.pc
           /\ confirm' = next.confirm
           /\ result' = next.result
    /\ stdin' = <<>>
    /\ UNCHANGED <<cmd, run, fs, fs0, dryRun, yes, verbose, planned, probeCount,
                   elevated, promptCount, output, errorsFound, calls, entries,
                   problems, cpIn, cpOut>>

\* one mutator call as it was made: the operation, its arguments, its outcome
Call(op, path, mode, owner, group, err) ==
    [op |-> op, path |-> path, mode |-> mode, owner |-> owner, group |-> group,
     err |-> err]

\* the bookkeeping every mutator call site of the execution phase shares:
\* the filesystem the call leaves, and on error one more element of errorsFound
Applied(call, r) ==
    /\ fs' = r.fs
    /\ calls' = Append(calls, call)
    /\ errorsFound' = IF r.err
                      THEN Append(errorsFound, Item(call.op, call.path, <<>>))
                      ELSE errorsFound

\* the answers the filesystem may give to the next mutator call
EnvAnswers == IF Len(errorsFound) < MaxFailures THEN BOOLEAN ELSE {TRUE}

\* the runs of the ACL tool the next Chown may see
EnvToolRuns(path) ==
    {t \in ToolRunsOn(fs, path) :
        ~t.exit0 /\ StatOk(fs, path) => Len(errorsFound) < MaxFailures}

\* every outcome Chown can have on the current filesystem
ChownOutcomes(path, owner, group) ==
    {Chown(fs, path, owner, group, t1, t2, t3) : t1, t2, t3 \in EnvToolRuns(path)}

ExecFrame == <<cmd, run, fs0, dryRun, yes, verbose, planned, probeCount, elevated,
               promptCount, stdin, confirm, output, problems, result, cpIn, cpOut>>

\* (an execution phase that creates the policy file whether it is there or not)
ExecPolicyCreateAlways ==
    /\ cmd = "fix" /\ pc = "EXEC_POLICY_CREATE"
    /\ \E envOk \in EnvAnswers, m \in CreateModes :
          LET r == CreateFileWithPerm(fs, systemPolicy, m, envOk)
          IN  Applied(Call("create", systemPolicy, 0, "", "", r.err), r)
    /\ pc' = "EXEC_POLICY_CHMOD"
    /\ UNCHANGED <<ExecFrame, entries>>

\* (an execution phase that never creates the policy file)
ExecPolicyCreateNever ==
    /\ cmd = "fix" /\ pc = "EXEC_POLICY_CREATE"
    /\ pc' = "EXEC_POLICY_CHMOD"
    /\ UNCHANGED <<ExecFrame, entries, fs, calls, errorsFound>>

\* Create system policy file if missing
ExecPolicyCreate ==
    /\ cmd = "fix" /\ pc = "EXEC_POLICY_CREATE"
    /\ IF ~StatOk(fs, systemPolicy)
       THEN \E envOk \in EnvAnswers, m \in CreateModes :
               LET r == CreateFileWithPerm(fs, systemPolicy, m, envOk)
               IN  Applied(Call("create", systemPolicy, 0, "", "", r.err), r)
       ELSE UNCHANGED <<fs, calls, errorsFound>>
    /\ pc' = "EXEC_POLICY_CHMOD"
    /\ UNCHANGED <<ExecFrame, entries>>

\* (an execution phase that gives up at the first chmod that fails)
ExecPolicyChmodFailFast ==
    /\ cmd = "fix" /\ pc = "EXEC_POLICY_CHMOD"
    /\ \E envOk \in EnvAnswers :
          LET r == Chmod(fs, systemPolicy, ModeSystemPerms, envOk)
          IN  /\ Applied(Call("chmod", systemPolicy, ModeSystemPerms, "", "", r.err), r)
              /\ pc' = IF r.err THEN "DONE" ELSE "EXEC_POLICY_CHOWN"
              /\ result' = IF r.err THEN Ret("fix completed with errors", 1) ELSE result
    /\ UNCHANGED <<cmd, run, fs0, dryRun, yes, verbose, planned, probeCount, elevated,
                   promptCount, stdin, confirm, output, problems, cpIn, cpOut,
                   entries>>

ExecPolicyChmod ==
    /\ cmd = "fix" /\ pc = "EXEC_POLICY_CHMOD"
    /\ \E envOk \in EnvAnswers :
          LET r == Chmod(fs, systemPolicy, ModeSystemPerms, envOk)
          IN  Applied(Call("chmod", systemPolicy, ModeSystemPerms, "", "", r.err), r)
    /\ pc' = "EXEC_POLICY_CHOWN"
    /\ UNCHANGED <<ExecFrame, entries>>

ExecPolicyChown ==
    /\ cmd = "fix" /\ pc = "EXEC_POLICY_CHOWN"
    /\ \E r \in ChownOutcomes(systemPolicy, "root", "opksshuser") :
              Applied(Call("chown", systemPolicy, 0, "root", "opksshuser", r.err), r)
    /\ pc' = "EXEC_PROVIDERS_MKDIR"
    /\ UNCHANGED <<ExecFrame, entries>>

\* Providers dir
ExecProvidersMkdir ==
    /\ cmd = "fix" /\ pc = "EXEC_PROVIDERS_MKDIR"
    /\ IF ~StatOk(fs, providersDir)
       THEN \E envOk \in EnvAnswers :
               LET r == MkdirAllWithPerm(fs, providersDir, ModeDirPerms, envOk)
               IN  Applied(Call("mkdir", providersDir, ModeDirPerms, "", "", r.err), r)
       ELSE UNCHANGED <<fs, calls, errorsFound>>
    /\ pc' = "EXEC_PROVIDERS_CHOWN"
    /\ UNCHANGED <<ExecFrame, entries>>

ExecProvidersChown ==
    /\ cmd = "fix" /\ pc = "EXEC_PROVIDERS_CHOWN"
    /\ \E r \in ChownOutcomes(providersDir, "root", "") :
              Applied(Call("chown", providersDir, 0, "root", "", r.err), r)
    /\ pc' = "EXEC_PLUGINS_MKDIR"
    /\ UNCHANGED <<ExecFrame, entries>>

\* Plugins dir
ExecPluginsMkdir ==
    /\ cmd = "fix" /\ pc = "EXEC_PLUGINS_MKDIR"
    /\ IF ~StatOk(fs, pluginsDir)
       THEN \E envOk \in EnvAnswers :
               LET r == MkdirAllWithPerm(fs, pluginsDir, ModeDirPerms, envOk)
               IN  Applied(Call("mkdir", pluginsDir, ModeDirPerms, "", "", r.err), r)
       ELSE UNCHANGED <<fs, calls, errorsFound>>
    /\ pc' = "EXEC_PLUGINS_OPEN"
    /\ UNCHANGED <<ExecFrame, entries>>

\* vfs.Open(pluginsDir) and Readdir(-1)
ExecPluginsOpen ==
    /\ cmd = "fix" /\ pc = "EXEC_PLUGINS_OPEN"
    /\ entries' = IF OpenOk(fs, pluginsDir) THEN Readdir(fs, pluginsDir) ELSE <<>>
    /\ pc' = "EXEC_ENTRY"
    /\ UNCHANGED <<ExecFrame, fs, calls, errorsFound>>

\* an entry that is a directory or does not end in .yml is passed over
ExecEntrySkip ==
    /\ cmd = "fix" /\ pc = "EXEC_ENTRY"
    /\ entries # <<>> /\ ~IsPluginFile(Head(entries))
    /\ entries' = Tail(entries)
    /\ UNCHANGED <<ExecFrame, pc, fs, calls, errorsFound>>

ExecEntryChmod ==
    /\ cmd = "fix" /\ pc = "EXEC_ENTRY"
    /\ entries # <<>> /\ IsPluginFile(Head(entries))
    /\ LET path == Join("plugins", Head(entries).name)
       IN  \E envOk \in EnvAnswers :
              LET r == Chmod(fs, path, ModeSystemPerms, envOk)
              IN  Applied(Call("chmod", path, ModeSystemPerms, "", "", r.err), r)
    /\ pc' = "EXEC_ENTRY_CHOWN"
    /\ UNCHANGED <<ExecFrame, entries>>

ExecEntryChown ==
    /\ cmd = "fix" /\ pc = "EXEC_ENTRY_CHOWN"
    /\ LET path == Join("plugins", Head(entries).name)
       IN  \E r \in ChownOutcomes(path, "root", "") :
                  Applied(Call("chown", path, 0, "root", "", r.err), r)
    /\ entries' = Tail(entries)
    /\ pc' = "EXEC_ENTRY"
    /\ UNCHANGED ExecFrame

\* (a run that reports success whatever was collected)
FixResultIgnoresErrors(errs) == Nil

\* the value runPermissionsFix returns after the execution phase
FixResult(errs) ==
    IF Len(errs) > 0 THEN Ret("fix completed with errors", Len(errs)) ELSE Nil

ExecFinish ==
    /\ cmd = "fix" /\ pc = "EXEC_ENTRY"
    /\ entries = <<>>
    /\ output' = IF Len(errorsFound) > 0
                 THEN output \o Lines("Error:", errorsFound)
                 ELSE Append(output, Line("fix completed successfully", NoItem))
    /\ result' = FixResult(errorsFound)
    /\ pc' = "DONE"
    /\ UNCHANGED <<cmd, run, fs, fs0, dryRun, yes, verbose, planned, probeCount,
                   elevated, promptCount, stdin, confirm, errorsFound, calls,
                   entries, problems, cpIn, cpOut>>

Init == InitFix

Next ==
    \/ Planning
    \/ DryRunReport
    \/ ElevationCheck
    \/ ShowPrompt
    \/ ReadAnswer
    \/ ExecPolicyCreate
    \/ ExecPolicyChmod
    \/ ExecPolicyChown
    \/ ExecProvidersMkdir
    \/ ExecProvidersChown
    \/ ExecPluginsMkdir
    \/ ExecPluginsOpen
    \/ ExecEntrySkip
    \/ ExecEntryChmod
    \/ ExecEntryChown
    \/ ExecFinish

Spec == Init /\ [][Next]_vars

----------------------------------------------------------------------------
(* runPermissionsFix --yes, started again once it has returned *)

\* the filesystems of the repeated runs: every governed path is there (the
\* providers directory also as the installer leaves it)
TwiceFsStates ==
    {[f EXCEPT !.providers = r] :
        f \in {g \in FixFsStates : g.policy.kind # "none" /\ g.plugins.kind # "none"},
        r \in (ProvidersStates \ {NoFile})
                 \cup {Dir(ModeDirPerms, "Administrators", FullControl)}}

InitTwice ==
    /\ cmd = "fix"
    /\ run = 1
    /\ pc = "PLANNING"
    /\ fs \in TwiceFsStates
    /\ fs0 = fs
    /\ dryRun = FALSE /\ yes = TRUE /\ verbose = FALSE
    /\ planned = <<>>
    /\ probeCount = 0
    /\ elevated = "unasked"
    /\ promptCount = 0
    /\ stdin = <<>>
    /\ confirm = "unasked"
    /\ output = <<>>
    /\ errorsFound = <<>>
    /\ calls = <<>>
    /\ entries = <<>>
    /\ problems = <<>>
    /\ result = Running
    /\ cpIn = NoCheckPerm
    /\ cpOut = NoErr

\* the command has gone through its execution phase and returned, and is
\* started again with the same flags on the filesystem that run left; its local
\* variables start afresh (a run turned back at the elevation gate has touched
\* nothing: the run after it is a first run)
Rerun ==
    /\ cmd = "fix" /\ pc = "DONE" /\ run < MaxRuns
    /\ elevated = "elevated"
    /\ run' = run + 1
    /\ pc' = "PLANNING"
    /\ planned' = <<>>
    /\ elevated' = "unasked"
    /\ confirm' = "unasked"
    /\ stdin' = <<>>
    /\ output' = <<>>
    /\ errorsFound' = <<>>
    /\ calls' = <<>>
    /\ entries' = <<>>
    /\ result' = Running
    /\ UNCHANGED <<cmd, fs, fs0, dryRun, yes, verbose, probeCount, promptCount,
                   problems, cpIn, cpOut>>

NextTwice ==
    \/ Planning
    \/ ElevationCheck
    \/ ExecPolicyCreate
    \/ ExecPolicyChmod
    \/ ExecPolicyChown
    \/ ExecProvidersMkdir
    \/ ExecProvidersChown
    \/ ExecPluginsMkdir
    \/ ExecPluginsOpen
    \/ ExecEntrySkip
    \/ ExecEntryChmod
    \/ ExecEntryChown
    \/ ExecFinish
    \/ Rerun

SpecTwice == InitTwice /\ [][NextTwice]_vars

----------------------------------------------------------------------------
(* runPermissionsCheck *)

\* plugins.RequiredPolicyDirPerms(): the one mode accepted for policy.d, 0750
RequiredPolicyDirPerms == <<ModeDirPerms>>

\* the CmdRunner runPermissionsCheck builds: it answers "root opksshuser"
PermissiveRunner == Answering(<<"root", " ", "opksshuser">>)

\* the plugins directory as the check can find it: also with loose bits, also
\* owned by somebody else
CheckPluginsStates ==
    PluginsStates \cup {Dir(511, "alice", {}), Dir(ModeDirPerms, "alice", {})}

CheckFsStates ==
    {[policy |-> p, providers |-> r, plugins |-> g, listing |-> l] :
        p \in PolicyStates \cup {File(0, "Administrators", FullControl, "")},
        r \in ProvidersStates,
        g \in {NoFile}, l \in {<<>>}}
    \cup
    {[policy |-> p, providers |-> r, plugins |-> g, listing |-> l] :
        p \in PolicyStates \cup {File(0, "Administrators", FullControl, "")},
        r \in ProvidersStates,
        g \in CheckPluginsStates \ {NoFile}, l \in Listings}

InitCheck ==
    /\ cmd = "check"
    /\ run = 1
    /\ pc = "CHECK_POLICY"
    /\ fs \in CheckFsStates
    /\ fs0 = fs
    /\ dryRun = FALSE /\ yes = FALSE /\ verbose = FALSE
    /\ planned = <<>>
    /\ probeCount = 0
    /\ elevated = "unasked"
    /\ promptCount = 0
    /\ stdin = <<>>
    /\ confirm = "unasked"
    /\ output = <<>>
    /\ errorsFound = <<>>
    /\ calls = <<>>
    /\ entries = <<>>
    /\ problems = <<>>
    /\ result = Running
    /\ cpIn = NoCheckPerm
    /\ cpOut = NoErr

\* a problem: the path it is about and the error found there
Problem(path, err) == [path |-> path, err |-> err]

StatErr == CheckErr("stat failed", <<>>, <<>>)

\* the lines the check prints for an ACL report
ReportLines(report) ==
    << Line("owner= mode=", Item("", report.path, <<>>)) >>
    \o (IF Len(report.aces) > 0 THEN << Line("  ACEs:", NoItem) >> ELSE <<>>)
    \o [i \in DOMAIN report.aces |-> Line("    -", NoItem)]
    \o [i \in DOMAIN report.problems |-> Line("  ACL problem:", Item("", report.path, <<>>))]

CheckFrame == <<cmd, run, fs, fs0, dryRun, yes, verbose, planned, probeCount, elevated,
                promptCount, stdin, confirm, errorsFound, calls, entries, cpIn, cpOut>>

\* (a check that sets the mode of a policy file it finds wanting)
CheckSystemPolicyRepairs ==
    /\ cmd = "check" /\ pc = "CHECK_POLICY"
    /\ IF ~StatOk(fs, systemPolicy)
       THEN /\ problems' = Append(problems, Problem(systemPolicy, StatErr))
            /\ UNCHANGED <<output, fs>>
       ELSE LET err == CheckPerm(Lookup(fs, systemPolicy), PermissiveRunner,
                                 <<ModeSystemPerms>>, <<"root">>, <<>>)
                report == VerifyACL(fs, systemPolicy)
            IN  /\ problems' = IF err # NoErr
                               THEN Append(problems, Problem(systemPolicy, err))
                               ELSE problems
                /\ fs' = IF err # NoErr
                         THEN Chmod(fs, systemPolicy, ModeSystemPerms, TRUE).fs
                         ELSE fs
                /\ output' = output \o ReportLines(report)
    /\ pc' = "CHECK_PROVIDERS"
    /\ UNCHANGED <<cmd, run, fs0, dryRun, yes, verbose, planned, probeCount, elevated,
                   promptCount, stdin, confirm, errorsFound, calls, entries, cpIn,
                   cpOut, result>>

\* System policy file
CheckSystemPolicy ==
    /\ cmd = "check" /\ pc = "CHECK_POLICY"
    /\ IF ~StatOk(fs, systemPolicy)
       THEN /\ problems' = Append(problems, Problem(systemPolicy, StatErr))
            /\ UNCHANGED output
       ELSE LET err == CheckPerm(Lookup(fs, systemPolicy), PermissiveRunner,
                                 <<ModeSystemPerms>>, <<"root">>, <<>>)
                report == VerifyACL(fs, systemPolicy)
            IN  /\ problems' = IF err # NoErr
                               THEN Append(problems, Problem(systemPolicy, err))
                               ELSE problems
                /\ output' = output \o ReportLines(report)
    /\ pc' = "CHECK_PROVIDERS"
    /\ UNCHANGED <<CheckFrame, result>>

\* Providers dir
CheckProvidersDir ==
    /\ cmd = "check" /\ pc = "CHECK_PROVIDERS"
    /\ problems' = IF ~StatOk(fs, providersDir)
                   THEN Append(problems, Problem(providersDir, StatErr))
                   ELSE problems
    /\ pc' = "CHECK_PLUGINS"
    /\ UNCHANGED <<CheckFrame, output, result>>

\* Policy plugins dir
CheckPluginsDir ==
    /\ cmd = "check" /\ pc = "CHECK_PLUGINS"
    /\ problems' =
         IF ~StatOk(fs, pluginsDir)
         THEN Append(problems, Problem(pluginsDir, StatErr))
         ELSE LET err == CheckPerm(Lookup(fs, pluginsDir), PermissiveRunner,
                                   RequiredPolicyDirPerms, <<"root">>, <<>>)
              IN  IF err # NoErr
                  THEN Append(problems, Problem(pluginsDir, err))
                  ELSE problems
    /\ pc' = "CHECK_FINISH"
    /\ UNCHANGED <<CheckFrame, output, result>>

\* the value runPermissionsCheck returns
CheckResult(ps) ==
    IF Len(ps) > 0 THEN Ret("permissions check failed", Len(ps)) ELSE Nil

CheckFinish ==
    /\ cmd = "check" /\ pc = "CHECK_FINISH"
    /\ output' = output \o [i \in DOMAIN problems |->
                              Line("Problem:", Item("", problems[i].path, <<>>))]
    /\ result' = CheckResult(problems)
    /\ pc' = "DONE"
    /\ UNCHANGED <<CheckFrame, problems>>

NextCheck ==
    \/ CheckSystemPolicy
    \/ CheckProvidersDir
    \/ CheckPluginsDir
    \/ CheckFinish

SpecCheck == InitCheck /\ [][NextCheck]_vars

----------------------------------------------------------------------------
(* A call of CheckPerm on arbitrary arguments *)

\* the permission bits a path can show
FileModes == {0, 384, 416, 493, 511}

\* the values an allow-list can hold: 0640 and 0755
AllowModes == {416, 493}

ProbeSymbols == {"root", "opksshuser", " ", "\n"}

CheckPermInputs ==
    [used : {TRUE},
     rec : {NoFile} \cup {File(m, "alice", {}, "") : m \in FileModes},
     runner : {NilRunner, FailingRunner}
                \cup {Answering(o) : o \in SeqsUpTo(ProbeSymbols, MaxProbeLen)},
     requirePerm : SeqsUpTo(AllowModes, MaxPerms),
     requiredOwner : {<<>>, <<"root">>, <<"opksshuser">>},
     requiredGroup : {<<>>, <<"opksshuser">>}]

PendingErr == CheckErr("pending", <<>>, <<>>)

InitCheckPerm ==
    /\ cmd = "checkperm"
    /\ run = 1
    /\ pc = "CALL"
    /\ cpIn \in CheckPermInputs
    /\ cpOut = PendingErr
    /\ fs = [policy |-> NoFile, providers |-> NoFile, plugins |-> NoFile,
             listing |-> <<>>]
    /\ fs0 = fs
    /\ dryRun = FALSE /\ yes = FALSE /\ verbose = FALSE
    /\ planned = <<>>
    /\ probeCount = 0
    /\ elevated = "unasked"
    /\ promptCount = 0
    /\ stdin = <<>>
    /\ confirm = "unasked"
    /\ output = <<>>
    /\ errorsFound = <<>>
    /\ calls = <<>>
    /\ entries = <<>>
    /\ problems = <<>>
    /\ result = Running

CheckPermCall ==
    /\ cmd = "checkperm" /\ pc = "CALL"
    /\ cpOut' = CheckPerm(cpIn.rec, cpIn.runner, cpIn.requirePerm,
                          cpIn.requiredOwner, cpIn.requiredGroup)
    /\ pc' = "DONE"
    /\ UNCHANGED <<cmd, run, fs, fs0, dryRun, yes, verbose, planned, probeCount,
                   elevated, promptCount, stdin, confirm, output, errorsFound,
                   calls, entries, problems, result, cpIn>>

NextCheckPerm == CheckPermCall

SpecCheckPerm == InitCheckPerm /\ [][NextCheckPerm]_vars

----------------------------------------------------------------------------
(* A call of WindowsACLFilePermsOps.Chown on arbitrary arguments *)

\* the filesystems of the call: only the system policy file matters
ChownFsStates ==
    {[policy |-> p, providers |-> NoFile, plugins |-> NoFile, listing |-> <<>>] :
        p \in PolicyStates}

InitChown ==
    /\ cmd = "chown"
    /\ run = 1
    /\ pc = "CALL"
    /\ fs \in ChownFsStates
    /\ fs0 = fs
    /\ \E owner \in {"", "root", "alice"}, group \in {"", "opksshuser"} :
         \E t1, t2, t3 \in ToolRunsOn(fs, systemPolicy) :
            cpIn = [used |-> TRUE, path |-> systemPolicy, owner |-> owner,
                    group |-> group, t1 |-> t1, t2 |-> t2, t3 |-> t3]
    /\ cpOut = PendingErr
    /\ dryRun = FALSE /\ yes = FALSE /\ verbose = FALSE
    /\ planned = <<>>
    /\ probeCount = 0
    /\ elevated = "unasked"
    /\ promptCount = 0
    /\ stdin = <<>>
    /\ confirm = "unasked"
    /\ output = <<>>
    /\ errorsFound = <<>>
    /\ calls = <<>>
    /\ entries = <<>>
    /\ problems = <<>>
    /\ result = Running

ChownCall ==
    /\ cmd = "chown" /\ pc = "CALL"
    /\ LET r == Chown(fs, cpIn.path, cpIn.owner, cpIn.group, cpIn.t1, cpIn.t2, cpIn.t3)
       IN  /\ fs' = r.fs
           /\ calls' = Append(calls, Call("chown", cpIn.path, 0, cpIn.owner,
                                          cpIn.group, r.err))
           /\ cpOut' = [err |-> r.err, tools |-> r.tools]
    /\ pc' = "DONE"
    /\ UNCHANGED <<cmd, run, fs0, dryRun, yes, verbose, planned, probeCount,
                   elevated, promptCount, stdin, confirm, output, errorsFound,
                   entries, problems, result, cpIn>>

NextChown == ChownCall

SpecChown == InitChown /\ [][NextChown]_vars

----------------------------------------------------------------------------
(* One mutator of WindowsACLFilePermsOps called twice in a row with the same *)
(* arguments                                                                 *)

\* the object the call is aimed at: missing, a file, a directory
TargetStates ==
    PolicyStates \cup {Dir(ModeDirPerms, "Administrators", FullControl),
                       Dir(ModeDirPerms, "alice", {})}

\* a run of the tool that exits with status zero / with another status
ToolOk == [exit0 |-> TRUE, out |-> <<"processed file: ", "Successfully processed", " 1 files">>]
ToolFailed == [exit0 |-> FALSE, out |-> <<"Access is denied.">>]

\* the calls tried: operation, arguments, and what the environment answers
MutatorInputs ==
    [used : {TRUE}, op : {"mkdir", "create", "chmod"}, path : {systemPolicy},
     perm : {ModeSystemPerms, ModeDirPerms}, owner : {""}, group : {""},
     envOk : BOOLEAN, t : {ToolOk}]
    \cup
    [used : {TRUE}, op : {"chown"}, path : {systemPolicy},
     perm : {0}, owner : {"", "root", "alice"}, group : {"", "opksshuser"},
     envOk : {TRUE}, t : {ToolOk, ToolFailed}]

InitMutator ==
    /\ cmd = "mutator"
    /\ run = 1
    /\ pc = "CALL"
    /\ \E target \in TargetStates :
          fs = [policy |-> target, providers |-> NoFile, plugins |-> NoFile,
                listing |-> <<>>]
    /\ fs0 = fs
    /\ cpIn \in {c \in MutatorInputs :
                    c.t.exit0 => StatOk(fs, c.path)}
    /\ cpOut = PendingErr
    /\ dryRun = FALSE /\ yes = FALSE /\ verbose = FALSE
    /\ planned = <<>>
    /\ probeCount = 0
    /\ elevated = "unasked"
    /\ promptCount = 0
    /\ stdin = <<>>
    /\ confirm = "unasked"
    /\ output = <<>>
    /\ errorsFound = <<>>
    /\ calls = <<>>
    /\ entries = <<>>
    /\ problems = <<>>
    /\ result = Running

\* what the call of cpIn does to filesystem f
Mutate(f, c, newMode) ==
    CASE c.op = "mkdir" -> MkdirAllWithPerm(f, c.path, c.perm, c.envOk)
      [] c.op = "create" -> CreateFileWithPerm(f, c.path, newMode, c.envOk)
      [] c.op = "chmod" -> Chmod(f, c.path, c.perm, c.envOk)
      [] c.op = "chown" -> Chown(f, c.path, c.owner, c.group, c.t, c.t, c.t)

\* the mutator is called; fs0 keeps the filesystem the call found
MutatorCall ==
    /\ cmd = "mutator" /\ pc \in {"CALL", "ONCE"}
    /\ \E m \in CreateModes :
          LET r == Mutate(fs, cpIn, m)
          IN  /\ fs' = r.fs
              /\ calls' = Append(calls, Call(cpIn.op, cpIn.path, cpIn.perm,
                                             cpIn.owner, cpIn.group, r.err))
    /\ fs0' = fs
    /\ pc' = IF pc = "CALL" THEN "ONCE" ELSE "DONE"
    /\ UNCHANGED <<cmd, run, dryRun, yes, verbose, planned, probeCount,
                   elevated, promptCount, stdin, confirm, output, errorsFound,
                   entries, problems, result, cpIn, cpOut>>

NextMutator == MutatorCall

SpecMutator == InitMutator /\ [][NextMutator]_vars

----------------------------------------------------------------------------
(* Reading the system policy file: PolicyLoader.LoadPolicyAtPath and the     *)
(* add command (AddCmd.Run), as their tests describe them                    *)

\* the error a reader returns when CheckPerm refuses the file
InsecureErr(cause) == [kind |-> "file has insecure permissions", cause |-> cause]
NoLoadErr == [kind |-> "nil", cause |-> NoErr]

\* LoadPolicyAtPath: the permission check first, the contents only if it passes
LoadPolicyAtPath(f, path, runner) ==
    LET rec == Lookup(f, path)
        err == CheckPerm(rec, runner, <<ModeSystemPerms>>, <<>>, <<>>)
    IN  IF err.kind # "nil"
        THEN [contents |-> <<>>, err |-> InsecureErr(err)]
        ELSE [contents |-> <<rec.content>>, err |-> NoLoadErr]

\* the policy file's contents with the new entry appended
WithEntry(content) == IF content = "" THEN "entry" ELSE "policy+entry"

\* AddCmd.Run: load the system policy, append the entry, write it back
AddRun(f, path, runner) ==
    LET loaded == LoadPolicyAtPath(f, path, runner)
    IN  IF loaded.err.kind # "nil"
        THEN [policyPath |-> <<>>, err |-> loaded.err, fs |-> f]
        ELSE [policyPath |-> <<path>>, err |-> NoLoadErr,
              fs |-> Store(f, path, [Lookup(f, path) EXCEPT
                                       !.content = WithEntry(loaded.contents[1])])]

\* the checkers a reader can be built with: without a CmdRunner, with one that
\* fails, with one that answers
LoaderRunners ==
    {NilRunner, FailingRunner}
        \cup {Answering(o) : o \in SeqsUpTo(ProbeSymbols, MaxProbeLen)}

InitLoad ==
    /\ cmd \in {"load", "add"}
    /\ run = 1
    /\ pc = "CALL"
    /\ \E m \in FileModes, c \in {"", "policy"} :
          fs = [policy |-> File(m, "Administrators", FullControl, c),
                providers |-> NoFile, plugins |-> NoFile, listing |-> <<>>]
    /\ fs0 = fs
    /\ cpIn \in [used : {TRUE}, runner : LoaderRunners]
    /\ cpOut = PendingErr
    /\ dryRun = FALSE /\ yes = FALSE /\ verbose = FALSE
    /\ planned = <<>>
    /\ probeCount = 0
    /\ elevated = "unasked"
    /\ promptCount = 0
    /\ stdin = <<>>
    /\ confirm = "unasked"
    /\ output = <<>>
    /\ errorsFound = <<>>
    /\ calls = <<>>
    /\ entries = <<>>
    /\ problems = <<>>
    /\ result = Running

LoadFrame == <<cmd, run, fs0, dryRun, yes, verbose, planned, probeCount, elevated,
               promptCount, stdin, confirm, output, errorsFound, calls, entries,
               problems, result, cpIn>>

LoadCall ==
    /\ cmd = "load" /\ pc = "CALL"
    /\ cpOut' = LoadPolicyAtPath(fs, systemPolicy, cpIn.runner)
    /\ pc' = "DONE"
    /\ UNCHANGED <<LoadFrame, fs>>

AddCall ==
    /\ cmd = "add" /\ pc = "CALL"
    /\ LET r == AddRun(fs, systemPolicy, cpIn.runner)
       IN  /\ cpOut' = [policyPath |-> r.policyPath, err |-> r.err]
           /\ fs' = r.fs
    /\ pc' = "DONE"
    /\ UNCHANGED LoadFrame

NextLoad ==
    \/ LoadCall
    \/ AddCall

SpecLoad == InitLoad /\ [][NextLoad]_vars

----------------------------------------------------------------------------
(* A call of WindowsACLVerifier.VerifyACL on a governed path *)

\* the pair VerifyACL returns: the report, and an error that is nil on both
\* of its return statements
VerifyACLReturn(f, path) == [report |-> VerifyACL(f, path), err |-> NoErr]

\* the paths a report can be asked for
VerifyPaths ==
    {systemPolicy, providersDir, pluginsDir}
        \cup {Join("plugins", PluginEntries[i].name) : i \in DOMAIN PluginEntries}

InitVerify ==
    /\ cmd = "verify"
    /\ run = 1
    /\ pc = "CALL"
    /\ fs \in CheckFsStates
    /\ fs0 = fs
    /\ cpIn \in [used : {TRUE}, path : VerifyPaths]
    /\ cpOut = PendingErr
    /\ dryRun = FALSE /\ yes = FALSE /\ verbose = FALSE
    /\ planned = <<>>
    /\ probeCount = 0
    /\ elevated = "unasked"
    /\ promptCount = 0
    /\ stdin = <<>>
    /\ confirm = "unasked"
    /\ output = <<>>
    /\ errorsFound = <<>>
    /\ calls = <<>>
    /\ entries = <<>>
    /\ problems = <<>>
    /\ result = Running

VerifyCall ==
    /\ cmd = "verify" /\ pc = "CALL"
    /\ cpOut' = VerifyACLReturn(fs, cpIn.path)
    /\ pc' = "DONE"
    /\ UNCHANGED <<LoadFrame, fs>>

NextVerify == VerifyCall

SpecVerify == InitVerify /\ [][NextVerify]_vars

----------------------------------------------------------------------------
(* Properties of runPermissionsFix *)

\* no mutator call has been made and the filesystem is as the run found it
Unmutated == fs = fs0 /\ calls = <<>>

\* C1: a dry run (whatever yes, verbose and the elevation probe are) makes no
\* mutator call, leaves every governed path as it found it, and returns success.
C1_DryRunNeverMutates ==
    (cmd = "fix" /\ dryRun) =>
        /\ Unmutated
        /\ pc = "DONE" => result = Nil

\* a dry run has ended, on a filesystem for which a creation was planned
C1_Witness ==
    /\ cmd = "fix" /\ dryRun /\ pc = "DONE"
    /\ ~StatOk(fs0, systemPolicy)
    /\ \E i \in DOMAIN planned : planned[i].act = "create file"

\* C2: a live run whose elevation probe answers "not elevated" returns the
\* elevation-required failure and performs no mutation, whatever yes is.
C2_NotElevatedFailsUnmutated ==
    (cmd = "fix" /\ ~dryRun /\ elevated = "not") =>
        /\ pc = "DONE"
        /\ result = Ret("fix requires elevated privileges", 0)
        /\ Unmutated

\* a live run under --yes was turned back at the elevation gate
C2_Witness ==
    /\ cmd = "fix" /\ ~dryRun /\ yes /\ elevated = "not" /\ pc = "DONE"
    /\ ~StatOk(fs0, systemPolicy)

\* the answer on standard input is an affirmative token: a line was read, and
\* trimmed and lower-cased it is "y" or "yes"
Affirmative(in) ==
    /\ \E i \in 1..Len(in) : in[i] = "\n"
    /\ TrimSpace(ToLower(ReadString(in, "\n").line)) \in {<<"y">>, <<"y", "e", "s">>}

\* C3: in a live, elevated run without --yes, any outcome of the prompt other
\* than an affirmative token (a failure to read included) ends the run with a
\* failure and no mutation; a negative answer yields "aborted by user".
C3_NonAffirmativeAborts ==
    /\ [][(cmd = "fix" /\ pc = "READ" /\ ~Affirmative(stdin)) =>
            /\ pc' = "DONE"
            /\ result' \notin {Nil, Running}
            /\ fs' = fs0 /\ calls' = <<>>
            /\ (\E i \in 1..Len(stdin) : stdin[i] = "\n")
                  => result' = Ret("aborted by user", 0)]_vars
    /\ [](confirm \in {"no", "error"} => pc = "DONE" /\ Unmutated)

\* the user declined, and the run ended
C3_Witness ==
    /\ cmd = "fix" /\ ~dryRun /\ ~yes /\ elevated = "elevated"
    /\ confirm = "no" /\ pc = "DONE" /\ result = Ret("aborted by user", 0)

\* C4: the phases come in the order PLANNING, ELEVATION-CHECK, CONFIRM,
\* EXECUTING: a mutation happens only after the probe answered "elevated" and
\* after --yes or an affirmative answer; the prompt is never shown in a dry run,
\* before the probe, when the probe did not answer "elevated", or under --yes;
\* the probe is consulted at most once and never after the first mutation.
C4_PhaseOrder ==
    /\ []((calls # <<>> \/ fs # fs0) =>
            /\ ~dryRun /\ elevated = "elevated"
            /\ yes \/ confirm = "ok")
    /\ [](promptCount > 0 => ~dryRun /\ ~yes /\ elevated = "elevated")
    /\ [](probeCount <= 1 /\ promptCount <= 1)
    /\ [](confirm # "unasked" => promptCount = 1)
    /\ [][probeCount' # probeCount => pc # "PLANNING" /\ calls = <<>> /\ promptCount = 0]_vars
    /\ [][calls # <<>> => probeCount' = probeCount /\ promptCount' = promptCount]_vars

\* a confirmed run went through every phase and mutated the filesystem
C4_Witness ==
    /\ cmd = "fix" /\ pc = "DONE" /\ probeCount = 1 /\ promptCount = 1
    /\ confirm = "ok" /\ fs # fs0

\* a mutator call that carries out a planned action
Carries(call, item) ==
    /\ call.path = item.path
    /\ call.op = (IF item.act = "create file" THEN "create" ELSE item.act)

\* C5: once execution has begun, a failing mutator call never stops the run:
\* every planned action has been attempted when the run ends.
C5_FailuresDoNotStopTheRun ==
    (cmd = "fix" /\ pc = "DONE" /\ calls # <<>>) =>
        \A i \in DOMAIN planned : \E j \in DOMAIN calls : Carries(calls[j], planned[i])

\* the first call failed, another failed too, and the run went on to the plugins
C5_Witness ==
    /\ cmd = "fix" /\ pc = "DONE"
    /\ Len(calls) >= 7 /\ calls[1].err
    /\ \E j \in 2..Len(calls) : calls[j].err /\ calls[j].path.name = <<>>
    /\ \E j \in 2..Len(calls) : calls[j].path.name # <<>>

\* the number of mutator calls that returned an error
FailedCalls == Cardinality({j \in DOMAIN calls : calls[j].err})

\* C6: a run that reached execution returns failure exactly when a mutator call
\* failed, the count in the error being the number of failed calls.
C6_ResultCountsFailures ==
    (cmd = "fix" /\ pc = "DONE" /\ calls # <<>>) =>
        result = (IF FailedCalls > 0
                  THEN Ret("fix completed with errors", FailedCalls)
                  ELSE Nil)

\* a run ended with two or more failed calls
C6_Witness ==
    /\ cmd = "fix" /\ pc = "DONE" /\ FailedCalls >= 2
    /\ result = Ret("fix completed with errors", FailedCalls)

----------------------------------------------------------------------------
(* Properties of runPermissionsCheck *)

\* the number of problems in the report of a governed path: a missing path is
\* one problem; a path that is there has the checker's finding (when it is
\* checked against an allow-list) and the problems of its ACL report (when the
\* ACL verifier is run on it)
ReportProblems(f, path, checked, allow, verified) ==
    IF ~StatOk(f, path) THEN 1
    ELSE (IF checked /\ CheckPerm(Lookup(f, path), PermissiveRunner, allow,
                                  <<"root">>, <<>>) # NoErr
          THEN 1 ELSE 0)
         + (IF verified THEN Len(VerifyACL(f, path).problems) ELSE 0)

AllReportProblems(f) ==
    ReportProblems(f, systemPolicy, TRUE, <<ModeSystemPerms>>, TRUE)
    + ReportProblems(f, providersDir, FALSE, <<>>, FALSE)
    + ReportProblems(f, pluginsDir, TRUE, RequiredPolicyDirPerms, FALSE)

\* C7: the check returns success only if every governed path's report is
\* passing (the path exists and its report, the ACL report included, has no
\* problem); otherwise it fails with the number of problems in the error.
C7_CheckFailsOnAnyProblem ==
    (cmd = "check" /\ pc = "DONE") =>
        /\ result = Nil => AllReportProblems(fs) = 0
        /\ AllReportProblems(fs) > 0 =>
              result = Ret("permissions check failed", AllReportProblems(fs))

\* C8: a check that returns success has printed nothing.
C8_SilentOnSuccess ==
    (cmd = "check" /\ pc = "DONE" /\ result = Nil) => output = <<>>

----------------------------------------------------------------------------
(* Properties of CheckPerm *)

AllowSet(requirePerm) == {requirePerm[i] : i \in DOMAIN requirePerm}

\* the call has returned, for a path that is there
Checked == cmd = "checkperm" /\ pc = "DONE" /\ cpIn.rec.kind # "none"

\* no owner or group was asked for, or the probe answered with exactly an owner
\* and a group, separated by one space, that are the ones asked for
OwnerGroupPasses ==
    \/ cpIn.requiredOwner = <<>> /\ cpIn.requiredGroup = <<>>
    \/ /\ cpIn.runner.present /\ ~cpIn.runner.err
       /\ LET t == TrimSpace(cpIn.runner.out)
          IN  \E k \in 1..Len(t) :
                /\ t[k] = " "
                /\ \A j \in 1..Len(t) : j # k => t[j] # " "
                /\ cpIn.requiredOwner # <<>> => SubSeq(t, 1, k - 1) = cpIn.requiredOwner
                /\ cpIn.requiredGroup # <<>> => SubSeq(t, k + 1, Len(t)) = cpIn.requiredGroup

\* the error is the mode mismatch naming the whole allow-list and the actual
\* bits, all in octal
IsModeMismatch(err, requirePerm, mode) ==
    /\ err.kind = "expected one of the following permissions"
    /\ err.expected = [i \in DOMAIN requirePerm |-> Octal(requirePerm[i])]
    /\ err.got = Octal(mode)

\* C9 as stated: whenever the bits of an existing path are not in the
\* allow-list, the mode mismatch is reported, whatever owner and group are
\* asked for and whatever the probe answers.
C9_AsStated ==
    (Checked /\ cpIn.rec.mode \notin AllowSet(cpIn.requirePerm)) =>
        IsModeMismatch(cpOut, cpIn.requirePerm, cpIn.rec.mode)

\* C9, amended: whenever the bits of an existing path are not in the allow-list,
\* a checker that has a CmdRunner reports the mode mismatch (whole allow-list
\* and actual bits in octal) provided the owner/group check, if asked for,
\* passes; when that check fails its error is returned in place of the mode
\* mismatch, and a checker without a CmdRunner reports nothing.
C9_ModeMismatchReported ==
    (Checked /\ cpIn.rec.mode \notin AllowSet(cpIn.requirePerm)) =>
        /\ (cpIn.runner.present /\ OwnerGroupPasses) =>
              IsModeMismatch(cpOut, cpIn.requirePerm, cpIn.rec.mode)
        /\ (cpIn.runner.present /\ ~OwnerGroupPasses) =>
              cpOut.kind \in {"failed to run stat",
                              "expected stat command to return 2 values",
                              "expected owner", "expected group"}
        /\ ~cpIn.runner.present => cpOut.kind = "nil"

\* a file with bits 0 checked against [640], owner root asked for and found:
\* "expected one of the following permissions [640], got (0)"
C9_Witness ==
    /\ Checked
    /\ cpIn.rec.mode = 0 /\ cpIn.requirePerm = <<416>>
    /\ cpIn.requiredOwner = <<"root">> /\ cpIn.requiredGroup = <<>>
    /\ cpIn.runner = Answering(<<"root", " ", "opksshuser">>)
    /\ cpOut = CheckErr("expected one of the following permissions",
                        << <<"6", "4", "0">> >>, <<"0">>)

\* C10 as stated: for an existing path with no owner/group problem, CheckPerm
\* reports nothing exactly when the bits equal an element of the allow-list.
C10_AsStated ==
    (Checked /\ OwnerGroupPasses) =>
        (cpOut.kind = "nil" <=> cpIn.rec.mode \in AllowSet(cpIn.requirePerm))

\* C10, amended: for an existing path with no owner/group problem, a checker
\* that has a CmdRunner reports nothing exactly when the bits equal an element
\* of the allow-list (a subset or superset of an allowed value does not match);
\* a checker without a CmdRunner reports nothing whatever the bits are.
C10_ExactMatchOnly ==
    /\ (Checked /\ OwnerGroupPasses /\ cpIn.runner.present) =>
          (cpOut.kind = "nil" <=> cpIn.rec.mode \in AllowSet(cpIn.requirePerm))
    /\ (Checked /\ ~cpIn.runner.present) => cpOut.kind = "nil"

\* bits 0600, a subset of the allowed 0640, are refused
C10_Witness ==
    /\ Checked /\ OwnerGroupPasses /\ cpIn.runner.present
    /\ cpIn.rec.mode = 384 /\ cpIn.requirePerm = <<416, 493>>
    /\ cpOut.kind = "expected one of the following permissions"

\* the probe answered with two fields separated by one space: the place of
\* that space in the trimmed answer (0 when the answer is not of that form)
ProbeCut ==
    LET t == TrimSpace(cpIn.runner.out)
        hits == {k \in 1..Len(t) : t[k] = " "}
    IN  IF cpIn.runner.present /\ ~cpIn.runner.err /\ Cardinality(hits) = 1
        THEN CHOOSE k \in hits : TRUE ELSE 0

ProbeOwner == SubSeq(TrimSpace(cpIn.runner.out), 1, ProbeCut - 1)
ProbeGroup ==
    SubSeq(TrimSpace(cpIn.runner.out), ProbeCut + 1, Len(TrimSpace(cpIn.runner.out)))

\* C11: when the probe answers with an owner and a group, CheckPerm compares
\* each with its expected value by exact equality and only if that expected
\* value is non-empty: a requested owner that differs yields the problem
\* "expected owner (expected), got (actual)", a requested group that differs
\* (the owner being accepted) yields "expected group (expected), got (actual)",
\* and no ownership problem is ever reported for an expected value that is
\* empty or equal to the answer.
C11_OwnerGroupExactWhenRequested ==
    (Checked /\ ProbeCut > 0) =>
        /\ (cpIn.requiredOwner # <<>> /\ cpIn.requiredOwner # ProbeOwner) =>
              cpOut = CheckErr("expected owner", cpIn.requiredOwner, ProbeOwner)
        /\ (/\ cpIn.requiredGroup # <<>> /\ cpIn.requiredGroup # ProbeGroup
            /\ (cpIn.requiredOwner = <<>> \/ cpIn.requiredOwner = ProbeOwner)) =>
              cpOut = CheckErr("expected group", cpIn.requiredGroup, ProbeGroup)
        /\ cpOut.kind = "expected owner" =>
              cpIn.requiredOwner # <<>> /\ cpIn.requiredOwner # ProbeOwner
        /\ cpOut.kind = "expected group" =>
              cpIn.requiredGroup # <<>> /\ cpIn.requiredGroup # ProbeGroup

\* the probe answers "root root": owner root is accepted, group opksshuser
\* is not
C11_Witness ==
    /\ Checked
    /\ cpIn.runner = Answering(<<"root", " ", "root">>)
    /\ cpIn.requiredOwner = <<"root">> /\ cpIn.requiredGroup = <<"opksshuser">>
    /\ cpOut = CheckErr("expected group", <<"opksshuser">>, <<"root">>)

----------------------------------------------------------------------------
(* Ownership and plugin files in runPermissionsCheck *)

\* the owner of the object is the expected owner "root" (on Windows the
\* Administrators group stands for root)
OwnedByRoot(rec) == rec.owner \in {"root", "Administrators"}

\* C12: whenever the system policy file or the plugins directory exists and is
\* not owned by the expected owner "root", the check reports an ownership
\* problem and returns failure.
C12_OwnershipMismatchReported ==
    (/\ cmd = "check" /\ pc = "DONE"
     /\ \E path \in {systemPolicy, pluginsDir} :
            StatOk(fs, path) /\ ~OwnedByRoot(Lookup(fs, path))) =>
        /\ result.kind = "permissions check failed"
        /\ \E i \in DOMAIN problems : problems[i].err.kind = "expected owner"

\* C13: the check verifies the *.yml files of the plugins directory: each such
\* file whose bits are not 0640 gives one problem for that file, "expected one
\* of the following permissions [640], got (<bits in octal>)", and the check
\* returns failure.
C13_PluginFilesChecked ==
    (cmd = "check" /\ pc = "DONE" /\ fs.plugins.kind = "dir") =>
        \A k \in DOMAIN fs.listing :
            (IsPluginFile(fs.listing[k])
               /\ Perm(fs.listing[k].rec.mode) # ModeSystemPerms) =>
                /\ result.kind = "permissions check failed"
                /\ \E i \in DOMAIN problems :
                      /\ problems[i].path = Join("plugins", fs.listing[k].name)
                      /\ problems[i].err.kind =
                            "expected one of the following permissions"
                      /\ problems[i].err.expected = << Octal(ModeSystemPerms) >>
                      /\ problems[i].err.got = Octal(Perm(fs.listing[k].rec.mode))

----------------------------------------------------------------------------
(* Properties of the plan of runPermissionsFix *)

Governed == {systemPolicy, providersDir, pluginsDir}

\* the planning phase is over: `planned` is the plan, made on filesystem fs0
Planned == cmd = "fix" /\ pc # "PLANNING"

PlanHas(acts, path) ==
    \E i \in DOMAIN planned : planned[i].act \in acts /\ planned[i].path = path

\* C14: whatever the filesystem is, the plan holds a mode-setting action and
\* an owner-setting action for each of the three governed paths.
C14_PlanSetsModeAndOwnerEverywhere ==
    Planned =>
        \A path \in Governed : PlanHas({"chmod"}, path) /\ PlanHas({"chown"}, path)

\* C15: the plan holds a creation action for a governed path (create file for
\* the policy file, mkdir for a directory) exactly when the path was missing at
\* planning time, and that action comes before every mode-setting and
\* owner-setting action for the same path.
C15_CreationIffMissingAndFirst ==
    Planned =>
        \A path \in Governed :
            /\ PlanHas({"create file", "mkdir"}, path) <=> ~StatOk(fs0, path)
            /\ PlanHas({"create file"}, path) => path = systemPolicy
            /\ PlanHas({"mkdir"}, path) => path # systemPolicy
            /\ \A i, j \in DOMAIN planned :
                  (/\ planned[i].path = path /\ planned[j].path = path
                   /\ planned[i].act \in {"create file", "mkdir"}
                   /\ planned[j].act \in {"chmod", "chown"}) => i < j

\* the policy file was missing: its creation is planned first, then its mode
\* and its owner
C15_Witness ==
    /\ Planned /\ ~StatOk(fs0, systemPolicy) /\ StatOk(fs0, providersDir)
    /\ Len(planned) >= 3
    /\ planned[1].act = "create file" /\ planned[2].act = "chmod"
    /\ planned[3].act = "chown"
    /\ ~PlanHas({"mkdir"}, providersDir)

\* the plan holds "chmod <entry> to 0640" immediately followed by
\* "chown <entry> to root"
PlanHasPair(name) ==
    \E i \in 1..(Len(planned) - 1) :
        /\ planned[i] = Item("chmod", Join("plugins", name), <<"0640">>)
        /\ planned[i + 1] = Item("chown", Join("plugins", name), <<"root">>)

\* C16 as stated: every entry of the plugins directory whose name ends in
\* ".yml" has its mode/owner pair in the plan, and no entry with another name
\* has any action.
C16_AsStated ==
    Planned =>
        \A k \in DOMAIN fs0.listing :
            LET e == fs0.listing[k]
            IN  IF HasSuffix(e.name, YmlSuffix)
                THEN PlanHasPair(e.name)
                ELSE ~PlanHas({"chmod", "chown", "mkdir", "create file"},
                              Join("plugins", e.name))

\* C16, amended: every entry of the plugins directory that is not a directory
\* and whose name ends in ".yml" has a mode-setting action immediately
\* followed by an owner-setting action in the plan; an entry that is a
\* directory, or whose name does not end in ".yml", has no action at all.
C16_PluginFilePairs ==
    Planned =>
        \A k \in DOMAIN fs0.listing :
            LET e == fs0.listing[k]
            IN  IF HasSuffix(e.name, YmlSuffix) /\ e.rec.kind # "dir"
                THEN PlanHasPair(e.name)
                ELSE ~PlanHas({"chmod", "chown", "mkdir", "create file"},
                              Join("plugins", e.name))

\* the directory holds the file a.yml and the file b.txt: a pair for the first,
\* nothing for the second
C16_Witness ==
    /\ Planned
    /\ fs0.listing = <<EntryA, EntryB>>
    /\ PlanHasPair(EntryA.name)
    /\ ~PlanHas({"chmod", "chown"}, Join("plugins", EntryB.name))

----------------------------------------------------------------------------
(* Properties of the execution phase of runPermissionsFix *)

\* the principal the ACL-tool variant of setOwner writes for the configured
\* owner "root": the platform's administrative group
ConfiguredOwner == "Administrators"

\* every governed path exists with the expected mode and owner
Correct(f) ==
    /\ f.policy.kind = "file" /\ f.policy.mode = ModeSystemPerms
    /\ f.policy.owner = ConfiguredOwner
    /\ f.providers.kind = "dir" /\ f.providers.mode = ModeDirPerms
    /\ f.providers.owner = ConfiguredOwner
    /\ f.plugins.kind = "dir" /\ f.plugins.mode = ModeDirPerms
    /\ f.plugins.owner = ConfiguredOwner
    /\ \A k \in DOMAIN f.listing :
          IsPluginFile(f.listing[k]) =>
              /\ f.listing[k].rec.mode = ModeSystemPerms
              /\ f.listing[k].rec.owner = ConfiguredOwner

\* what can be observed of an object: existence, mode, owner and content
Seen(rec) ==
    [kind |-> rec.kind, mode |-> rec.mode, owner |-> rec.owner, content |-> rec.content]

Observable(f) ==
    [policy |-> Seen(f.policy), providers |-> Seen(f.providers),
     plugins |-> Seen(f.plugins),
     listing |-> [k \in DOMAIN f.listing |->
                    [name |-> f.listing[k].name, rec |-> Seen(f.listing[k].rec)]]]

\* C17: on a filesystem where every governed path already exists with the
\* expected mode and owner, fix --yes run while elevated, once or twice in
\* succession, leaves existence, mode, owner and content of every governed
\* path as they were at the start.
C17_RepeatedFixChangesNothing ==
    (cmd = "fix" /\ yes /\ ~dryRun /\ Correct(fs0)) =>
        Observable(fs) = Observable(fs0)

\* the second of two elevated runs has ended, the first having ended before
\* it; both made their mutator calls on a correct filesystem with a plugin file
C17_Witness ==
    /\ cmd = "fix" /\ run = 2 /\ pc = "DONE" /\ elevated = "elevated"
    /\ probeCount = 2
    /\ Correct(fs0) /\ fs0.listing = <<EntryB, EntryD>>
    /\ \E i \in DOMAIN calls : calls[i].op = "chown" /\ ~calls[i].err
    /\ result = Nil

----------------------------------------------------------------------------
(* Properties of the owner/group probe and of the ACL tool *)

\* the white-space separated tokens of a probe output, in order
RECURSIVE Tokens(_)
Tokens(s) ==
    IF s = <<>> THEN <<>>
    ELSE IF IsSpace(Head(s)) THEN Tokens(Tail(s))
    ELSE LET stops == {i \in 1..Len(s) : IsSpace(s[i])}
             end == IF stops = {} THEN Len(s) + 1
                    ELSE CHOOSE i \in stops : \A j \in stops : i <= j
         IN  <<SubSeq(s, 1, end - 1)>> \o Tokens(SubSeq(s, end, Len(s)))

\* C19: when an owner or a group is asked for, CheckPerm reads the probe's
\* output as white-space separated tokens: it returns the hard error exactly
\* when the output is not two tokens, and otherwise takes the first token for
\* the owner and the second for the group; when neither is asked for the probe
\* is not run (its failure cannot show in the result).
C19_TwoWhitespaceTokens ==
    /\ (/\ Checked /\ cpIn.runner.present /\ ~cpIn.runner.err
        /\ (cpIn.requiredOwner # <<>> \/ cpIn.requiredGroup # <<>>)) =>
          LET toks == Tokens(cpIn.runner.out)
          IN  /\ cpOut.kind = "expected stat command to return 2 values"
                    <=> Len(toks) # 2
              /\ Len(toks) = 2 =>
                    /\ cpOut.kind = "expected owner" =>
                          cpOut.expected # toks[1] /\ cpOut.got = toks[1]
                    /\ cpOut.kind = "expected group" =>
                          cpOut.expected # toks[2] /\ cpOut.got = toks[2]
                    /\ (cpIn.requiredOwner # <<>> /\ cpIn.requiredOwner # toks[1]) =>
                          cpOut.kind = "expected owner"
    /\ (/\ Checked /\ cpIn.runner.present
        /\ cpIn.requiredOwner = <<>> /\ cpIn.requiredGroup = <<>>) =>
          cpOut.kind \in {"nil", "expected one of the following permissions"}

\* the call of Chown has returned, and it had something to set
Chowned ==
    /\ cmd = "chown" /\ pc = "DONE"
    /\ cpIn.owner # "" \/ cpIn.group # ""

\* the run of the tool exited with status zero, or its output holds the
\* marker, letter for letter
ExitZeroOrMarker(t) ==
    t.exit0 \/ \E i \in DOMAIN t.out : t.out[i] = "Successfully processed"

\* C20 as stated: each of the runs of the tool Chown asks for (set owner; grant
\* the group read, if a group is given; ensure full control) counts as a
\* success exactly when it exits with status zero or prints the marker, so
\* Chown returns no error exactly when each of them does.
C20_AsStated ==
    Chowned =>
        (~calls[1].err <=>
            /\ cpIn.owner # "" => ExitZeroOrMarker(cpIn.t1)
            /\ cpIn.group # "" => ExitZeroOrMarker(cpIn.t2)
            /\ ExitZeroOrMarker(cpIn.t3))

\* C20, amended: the runs that set the owner and grant the group read count
\* as a success exactly when they exit with status zero, whatever they print;
\* only the last run (full control for Administrators and SYSTEM) counts as a
\* success when it exits with status zero or prints the marker, matched
\* letter for letter.
C20_MarkerOnLastRunOnly ==
    Chowned =>
        (~calls[1].err <=>
            /\ cpIn.owner # "" => cpIn.t1.exit0
            /\ cpIn.group # "" => cpIn.t2.exit0
            /\ ExitZeroOrMarker(cpIn.t3))

\* owner and group were set, the last run failed but printed the marker:
\* Chown returns no error
C20_Witness ==
    /\ Chowned /\ cpIn.owner = "root" /\ cpIn.group = "opksshuser"
    /\ cpIn.t1.exit0 /\ cpIn.t2.exit0
    /\ ~cpIn.t3.exit0
    /\ \E i \in DOMAIN cpIn.t3.out : cpIn.t3.out[i] = "Successfully processed"
    /\ ~calls[1].err
    /\ fs.policy.owner = "Administrators"

\* the invocations Chown is to make for an owner and a group, in order: set
\* the owner (root written as Administrators), grant the group read, ensure
\* full control for Administrators and SYSTEM
ExpectedTools(owner, group) ==
    (IF owner # ""
       THEN << [verb |-> "/setowner",
                args |-> << IF owner = "root" THEN "Administrators" ELSE owner >>] >>
       ELSE <<>>)
    \o (IF group # ""
          THEN << [verb |-> "/grant", args |-> << <<group, "R">> >>] >> ELSE <<>>)
    \o << [verb |-> "/grant",
           args |-> << <<"Administrators", "F">>, <<"SYSTEM", "F">> >>] >>

IsPrefix(s, t) == Len(s) <= Len(t) /\ s = SubSeq(t, 1, Len(s))

ChownReturned == cmd = "chown" /\ pc = "DONE"

\* C21 as stated: for every owner and group, Chown invokes the tool in the
\* order set owner (root as Administrators), grant group read (if a group is
\* given), ensure full control, and every call that returns success has
\* attempted the full-control grant.
C21_AsStated ==
    ChownReturned =>
        /\ IsPrefix(cpOut.tools, ExpectedTools(cpIn.owner, cpIn.group))
        /\ ~cpOut.err => cpOut.tools = ExpectedTools(cpIn.owner, cpIn.group)

\* C21, amended: when an owner or a group is given, Chown invokes the tool in
\* the order set owner (root as Administrators), grant group read (if a group
\* is given), ensure full control, stopping at the first invocation it counts
\* as failed, and every such call that returns success has attempted the
\* full-control grant; when neither is given Chown returns success without
\* invoking the tool at all.
C21_OrderAndFinalEnsure ==
    ChownReturned =>
        IF cpIn.owner = "" /\ cpIn.group = ""
        THEN ~cpOut.err /\ cpOut.tools = <<>> /\ fs = fs0
        ELSE /\ IsPrefix(cpOut.tools, ExpectedTools(cpIn.owner, cpIn.group))
             /\ cpOut.tools # <<>>
             /\ ~cpOut.err => cpOut.tools = ExpectedTools(cpIn.owner, cpIn.group)

\* owner root and group opksshuser: three invocations, the owner written as
\* Administrators, the full-control grant last
C21_Witness ==
    /\ ChownReturned /\ cpIn.owner = "root" /\ cpIn.group = "opksshuser"
    /\ ~cpOut.err
    /\ Len(cpOut.tools) = 3
    /\ cpOut.tools[1] = [verb |-> "/setowner", args |-> <<"Administrators">>]
    /\ cpOut.tools[3].verb = "/grant"
    /\ fs.policy.owner = "Administrators"

----------------------------------------------------------------------------
(* Properties of the mutators *)

\* the target already is what the call asks for
Satisfied(f, c) ==
    LET rec == Lookup(f, c.path)
    IN  CASE c.op = "mkdir" -> rec.kind = "dir"
          [] c.op = "create" -> rec.kind = "file"
          [] c.op = "chmod" -> rec.kind # "none" /\ rec.mode = c.perm
          [] c.op = "chown" ->
                /\ rec.kind # "none"
                /\ c.owner # "" =>
                      rec.owner = (IF c.owner = "root" THEN "Administrators" ELSE c.owner)

\* the environment lets the call through
Cooperative(c) == c.envOk /\ c.t.exit0

\* C22: a mutator called on a target that already satisfies the request
\* succeeds and leaves the target's existence, content, mode and owner as they
\* were, and a second call with the same arguments changes nothing the first
\* call had not already changed.
C22_MutatorsIdempotent ==
    (cmd = "mutator" /\ Cooperative(cpIn)) =>
        /\ (pc = "ONCE" /\ Satisfied(fs0, cpIn)) =>
              /\ ~calls[1].err
              /\ Seen(Lookup(fs, cpIn.path)) = Seen(Lookup(fs0, cpIn.path))
        /\ pc = "DONE" =>
              /\ calls[2].err = calls[1].err
              /\ Seen(Lookup(fs, cpIn.path)) = Seen(Lookup(fs0, cpIn.path))

----------------------------------------------------------------------------
(* Properties of the readers of the system policy file *)

\* the reader has returned, for a policy file whose bits are not 0640
ReadInsecure ==
    /\ cmd \in {"load", "add"} /\ pc = "DONE"
    /\ Perm(fs0.policy.mode) # ModeSystemPerms

\* the reader refused the file: the error names the allow-list [640] and the
\* actual bits; load returns no contents, add returns no path and has left
\* the file as it was
Refused ==
    /\ cpOut.err.kind = "file has insecure permissions"
    /\ cpOut.err.cause.kind = "expected one of the following permissions"
    /\ cpOut.err.cause.expected = << <<"6", "4", "0">> >>
    /\ cpOut.err.cause.got = Octal(Perm(fs0.policy.mode))
    /\ cmd = "load" => cpOut.contents = <<>>
    /\ cmd = "add" => cpOut.policyPath = <<>> /\ fs = fs0

----------------------------------------------------------------------------
(* Further properties of runPermissionsFix *)

\* C24: in a live run, a probe that fails to answer ends the run with an error
\* of its own, different from the one returned when the probe answers "not
\* elevated"; in both cases nothing is prompted and nothing is mutated.
C24_ProbeErrorDistinctAndHarmless ==
    (cmd = "fix" /\ ~dryRun /\ elevated \in {"error", "not"}) =>
        /\ pc = "DONE"
        /\ result \notin {Nil, Running}
        /\ (result = Ret("fix requires elevated privileges", 0)) <=> (elevated = "not")
        /\ promptCount = 0
        /\ \A i \in DOMAIN output : output[i].tag # "Apply these changes? [y/N]: "
        /\ Unmutated

\* the probe failed in a live run that had repairs planned
C24_Witness ==
    /\ cmd = "fix" /\ ~dryRun /\ ~yes /\ elevated = "error" /\ pc = "DONE"
    /\ result = Ret("failed to determine elevation", 0)
    /\ \E i \in DOMAIN planned : planned[i].act = "chown"

\* the run has entered the execution phase
Executing ==
    cmd = "fix" /\ ~dryRun /\ elevated = "elevated" /\ (yes \/ confirm = "ok")

\* the text that stands in the plan for the value a mutator call is made with:
\* nothing for a creation, the mode for chmod (in the policy file's item as
\* FileMode.String() prints it, in a plugin file's item as "0640"), the owner
\* or owner:group for chown
PlanText(call) ==
    CASE call.op = "chmod" ->
             IF call.path.name = <<>>
             THEN ModeString(call.mode)
             ELSE (IF Octal(call.mode) = <<"6", "4", "0">> THEN <<"0640">> ELSE <<"?">>)
      [] call.op = "chown" ->
             IF call.group = "" THEN <<call.owner>>
             ELSE (IF call.owner = "root" /\ call.group = "opksshuser"
                   THEN <<"root:opksshuser">> ELSE <<"?">>)
      [] OTHER -> <<>>

\* C25: the mutator calls of the execution phase are the planned actions, one
\* call for one action and in the plan's order, each on the planned path with
\* the planned mode or owner; when the run ends every planned action has had
\* its call and there is no call besides.
C25_CallsFollowThePlan ==
    Executing =>
        /\ Len(calls) <= Len(planned)
        /\ \A i \in DOMAIN calls :
              Carries(calls[i], planned[i]) /\ planned[i].arg = PlanText(calls[i])
        /\ pc = "DONE" => Len(calls) = Len(planned)

\* a run that had to create the policy file and a directory and found a
\* plugin file ended after a failed call
C25_Witness ==
    /\ Executing /\ pc = "DONE"
    /\ planned[1].act = "create file"
    /\ \E i \in DOMAIN planned : planned[i].act = "mkdir"
    /\ \E i \in DOMAIN calls : calls[i].path.name # <<>>
    /\ \E i \in DOMAIN calls : calls[i].err

\* this step makes a chmod or chown call
SetsModeOrOwner ==
    /\ cmd = "fix" /\ Len(calls') = Len(calls) + 1
    /\ calls'[Len(calls')].op \in {"chmod", "chown"}

\* the path of the call this step makes
Target == calls'[Len(calls')].path

\* C26 as stated: whenever the execution phase applies a mode or an owner to
\* a path, the path exists at that moment, whatever calls failed before.
C26_AsStated == [][SetsModeOrOwner => StatOk(fs, Target)]_vars

\* the call that was to create the path has been made and failed
CreationFailed(path) ==
    \E j \in DOMAIN calls :
        /\ calls[j].op \in {"create", "mkdir"}
        /\ calls[j].path = path /\ calls[j].err

\* C26, amended: whenever the execution phase applies a mode or an owner to a
\* path, the path exists at that moment unless the call that was to create it
\* failed; in that case the mode and owner calls are still made on the missing
\* path, and each of them fails and is counted.
C26_ExistsUnlessCreationFailed ==
    [][SetsModeOrOwner =>
          \/ StatOk(fs, Target)
          \/ /\ CreationFailed(Target)
             /\ calls'[Len(calls')].err
             /\ Len(errorsFound') = Len(errorsFound) + 1
             /\ fs' = fs]_vars

\* the creation of the policy file failed, and chmod and chown were called on
\* the missing file all the same
C26_Witness ==
    /\ Executing /\ Len(calls) >= 3 /\ ~StatOk(fs, systemPolicy)
    /\ calls[1].op = "create" /\ calls[1].err
    /\ calls[2].op = "chmod" /\ calls[2].path = systemPolicy /\ calls[2].err
    /\ calls[3].op = "chown" /\ calls[3].path = systemPolicy /\ calls[3].err

----------------------------------------------------------------------------
(* Further properties of runPermissionsCheck *)

\* C27: the check never mutates: at every point of it, and whether it ends in
\* success or in failure, every governed path has the existence, mode, owner,
\* access list and content it had when the check began, the entries of the
\* plugins directory included, and no mutator has been called.
C27_CheckNeverMutates ==
    cmd = "check" =>
        /\ fs.policy = fs0.policy
        /\ fs.providers = fs0.providers
        /\ fs.plugins = fs0.plugins
        /\ fs.listing = fs0.listing
        /\ calls = <<>>

\* a check that ran CheckPerm and VerifyACL on a policy file with the wrong
\* mode has ended in failure
C27_Witness ==
    /\ cmd = "check" /\ pc = "DONE"
    /\ StatOk(fs0, systemPolicy) /\ Perm(fs0.policy.mode) # ModeSystemPerms
    /\ \E i \in DOMAIN problems :
          problems[i].path = systemPolicy /\ problems[i].err # StatErr
    /\ result # Nil

----------------------------------------------------------------------------
(* Properties of WindowsACLVerifier.VerifyACL *)

----------------------------------------------------------------------------
(* Further properties of the fix workflow *)

\* this step calls CreateFileWithPerm on the system policy path
CreatesPolicy ==
    /\ cmd = "fix" /\ Len(calls') = Len(calls) + 1
    /\ calls'[Len(calls')].op = "create"
    /\ calls'[Len(calls')].path = systemPolicy

\* C29: CreateFileWithPerm is called on the system policy path only when the
\* stat made just before it failed; a policy file that was there before the
\* run is never re-created or truncated, its content is the same at every
\* point of the run.
C29_ExistingPolicyFileKept ==
    /\ [][CreatesPolicy => ~StatOk(fs, systemPolicy)]_vars
    /\ []((cmd = "fix" /\ StatOk(fs0, systemPolicy)) =>
            /\ fs.policy.kind = fs0.policy.kind
            /\ fs.policy.content = fs0.policy.content
            /\ \A i \in DOMAIN calls :
                  ~(calls[i].op = "create" /\ calls[i].path = systemPolicy))

\* a run has repaired the mode of a policy file that had content, and the
\* content is still there
C29_Witness ==
    /\ Executing /\ pc = "DONE"
    /\ fs0.policy.kind = "file" /\ fs0.policy.content = "policy"
    /\ fs0.policy.mode # ModeSystemPerms /\ fs.policy.mode = ModeSystemPerms
    /\ fs.policy.content = "policy"

\* the phase a control point belongs to, in the order of the workflow
Phase(p) ==
    CASE p = "PLANNING" -> 1
      [] p = "REPORT" -> 2
      [] p = "ELEVATION" -> 3
      [] p \in {"CONFIRM", "READ"} -> 4
      [] p = "DONE" -> 6
      [] OTHER -> 5

\* the steps the execution phase has before it when it opens the plugins
\* directory: two for each entry the directory can hold, and the end
StepsAtOpen == 2 * MaxPlugins + 2

\* a bound on the steps a run still has to take
StepsLeft(p, es) ==
    CASE p = "DONE" -> 0
      [] p = "EXEC_ENTRY_CHOWN" -> 2 * Len(es)
      [] p = "EXEC_ENTRY" -> 2 * Len(es) + 1
      [] p = "EXEC_PLUGINS_OPEN" -> StepsAtOpen
      [] p = "EXEC_PLUGINS_MKDIR" -> StepsAtOpen + 1
      [] p = "EXEC_PROVIDERS_CHOWN" -> StepsAtOpen + 2
      [] p = "EXEC_PROVIDERS_MKDIR" -> StepsAtOpen + 3
      [] p = "EXEC_POLICY_CHOWN" -> StepsAtOpen + 4
      [] p = "EXEC_POLICY_CHMOD" -> StepsAtOpen + 5
      [] p = "EXEC_POLICY_CREATE" -> StepsAtOpen + 6
      [] p = "READ" -> StepsAtOpen + 7
      [] p = "CONFIRM" -> StepsAtOpen + 8
      [] p \in {"ELEVATION", "REPORT"} -> StepsAtOpen + 9
      [] OTHER -> StepsAtOpen + 10

\* the terminal outcomes of the workflow, by what the run went through
Outcomes ==
    << dryRun /\ result = Nil,
       ~dryRun /\ elevated = "error"
            /\ result = Ret("failed to determine elevation", 0),
       ~dryRun /\ elevated = "not"
            /\ result = Ret("fix requires elevated privileges", 0),
       Executing = FALSE /\ confirm = "error" /\ result = Ret("read error", 0),
       Executing = FALSE /\ confirm = "no" /\ result = Ret("aborted by user", 0),
       Executing /\ Len(errorsFound) > 0
            /\ result = Ret("fix completed with errors", Len(errorsFound)),
       Executing /\ Len(errorsFound) = 0 /\ result = Nil >>

\* the path the next call of Chown is made on, at the control points where
\* the next call is Chown
ChownTarget ==
    CASE pc = "EXEC_POLICY_CHOWN" -> << systemPolicy >>
      [] pc = "EXEC_PROVIDERS_CHOWN" -> << providersDir >>
      [] pc = "EXEC_ENTRY_CHOWN" /\ entries # <<>> ->
             << Join("plugins", Head(entries).name) >>
      [] OTHER -> <<>>

\* the run is not stuck: where the next call is Chown there is a path to call
\* it on and the ACL tool has a way to run; where another mutator is called or
\* the prompt is read, the environment has an answer to give; in the loop over
\* the entries one of its three steps can be taken; the other control points
\* have an unguarded step
CanStep ==
    CASE pc \in {"EXEC_POLICY_CHOWN", "EXEC_PROVIDERS_CHOWN", "EXEC_ENTRY_CHOWN"} ->
             ChownTarget # <<>> /\ EnvToolRuns(ChownTarget[1]) # {}
      [] pc \in {"EXEC_POLICY_CREATE", "EXEC_POLICY_CHMOD", "EXEC_PROVIDERS_MKDIR",
                 "EXEC_PLUGINS_MKDIR"} -> EnvAnswers # {} /\ CreateModes # {}
      [] pc = "CONFIRM" -> StdinInputs # {}
      [] pc = "EXEC_ENTRY" -> ENABLED (ExecEntrySkip \/ ExecEntryChmod \/ ExecFinish)
      [] pc \in {"PLANNING", "REPORT", "ELEVATION", "READ", "EXEC_PLUGINS_OPEN"} -> TRUE
      [] OTHER -> FALSE

\* C30: the fix workflow is linear and has no cycle: no step leads back to an
\* earlier phase, every step brings the run strictly nearer to its end (so a
\* run whose prompt and mutator calls return ends after a bounded number of
\* steps), a run that has not ended can take a step, and a run that has ended
\* has exactly one of the seven terminal outcomes, none being set before.
C30_LinearAndOneOutcome ==
    /\ [][cmd = "fix" =>
            /\ Phase(pc') >= Phase(pc)
            /\ StepsLeft(pc', entries') < StepsLeft(pc, entries)]_vars
    /\ []((cmd = "fix" /\ pc # "DONE") => result = Running /\ CanStep)
    /\ []((cmd = "fix" /\ pc = "DONE") =>
            Cardinality({k \in DOMAIN Outcomes : Outcomes[k]}) = 1)

\* a confirmed run went through every phase, worked through two plugin
\* entries and ended with errors
C30_Witness ==
    /\ Executing /\ pc = "DONE" /\ ~yes /\ promptCount = 1
    /\ Len(fs0.listing) = 2
    /\ Outcomes[6]

====
